---- MODULE Spec2Model ----
(***************************************************************************)
(* SmartHire: the hybrid retriever (scripts/query_resumes.py), the         *)
(* candidate matcher (scripts/match_resumes.py), the text normaliser       *)
(* (scripts/clean_text_to_json.py), the rule-based segmenter               *)
(* (scripts/build_sections.py) and the LLM segmenter with its bulk job     *)
(* (scripts/section_resumes.py, components/helpers.py) as state machines.  *)
(*                                                                         *)
(* A Python str is a sequence of one-character strings, so that lower(),   *)
(* substring containment and the regular-expression tokenizer are computed *)
(* and not assumed.  A float score is the exact fraction <<num, den>>.     *)
(***************************************************************************)
EXTENDS Integers, Sequences, FiniteSets, TLC

VARIABLES
    kwQuery,     \* extract_keywords: the argument `query`
    kwResult,    \* extract_keywords: the returned list, or NotCalled
    dirExists,   \* JSON_PATH.exists()
    dirOrder,    \* the ids of JSON_PATH/*.json in the order glob() lists them
    search,      \* the search_resumes call and what it did (see SearchResumes)
    match,       \* the match_top_candidates call (see MatchIdle)
    scoring,     \* the score_resume call (see ScoreIdle)
    run,         \* a matching run with its events (see RunIdle)
    seg,         \* the build_sections call (see SegIdle)
    norm,        \* clean_text applied again and again (see NormIdle)
    comp,        \* the two build_resume_text calls on one record (see CompIdle)
    llm          \* the segmenter: globals, directories, bulk job (see LlmIdle)

vars == <<kwQuery, kwResult, dirExists, dirOrder, search, match, scoring, run, seg, norm, comp, llm>>

NotCalled == "not called"

(***************************************************************************)
(* Bounds                                                                  *)
(***************************************************************************)
MaxQueryLen == 5      \* extract_keywords: length of the query, in characters
NumRecords == 3       \* record files the processed directory may hold
MaxK == 2             \* search_resumes: n_results ranges over 0..MaxK
MaxHits == 2          \* neighbours the vector index holds for a query
MaxLines == 3         \* build_sections: lines of the text

(***************************************************************************)
(* Python str helpers                                                      *)
(***************************************************************************)
QUOTE == "\""

\* str.lower() on one character (the letters the model's texts use)
LowerChar(c) ==
    CASE c = "A" -> "a" [] c = "D" -> "d" [] c = "G" -> "g" [] c = "L" -> "l"
      [] c = "N" -> "n" [] c = "O" -> "o" [] c = "P" -> "p" [] c = "Q" -> "q"
      [] c = "S" -> "s" [] c = "Y" -> "y" [] c = "E" -> "e" [] c = "C" -> "c"
      [] c = "I" -> "i" [] c = "K" -> "k" [] c = "M" -> "m" [] c = "R" -> "r"
      [] c = "T" -> "t" [] c = "U" -> "u" [] c = "X" -> "x" [] c = "F" -> "f"
      [] OTHER -> c

\* str.lower()
Lower(s) == [i \in 1..Len(s) |-> LowerChar(s[i])]

\* the regular expression class \w (letters, digits, underscore)
IsWordChar(c) ==
    c \in { "a", "b", "c", "d", "e", "f", "g", "h", "i", "j", "k", "l", "m",
            "n", "o", "p", "q", "r", "s", "t", "u", "v", "w", "x", "y", "z",
            "A", "B", "C", "D", "E", "F", "G", "H", "I", "J", "K", "L", "M",
            "N", "O", "P", "Q", "R", "S", "T", "U", "V", "W", "X", "Y", "Z",
            "0", "1", "2", "3", "4", "5", "6", "7", "8", "9", "_" }

\* Python's `sub in s` for two str
Contains(s, sub) ==
    \E i \in 0..(Len(s) - Len(sub)) :
        \A j \in 1..Len(sub) : s[i + j] = sub[j]

\* list[:n] for n >= 0
PySliceAll(s, n) == s          \* variant: the list left uncut
PySlice(s, n) == SubSeq(s, 1, IF n < Len(s) THEN n ELSE Len(s))

\* every str over alphabet A of length at most n
StrUpTo(A, n) == UNION { [1..m -> A] : m \in 0..n }

(***************************************************************************)
(* extract_keywords (query_resumes.py:110-125)                             *)
(***************************************************************************)
\* stop_words, query_resumes.py:112-114
stop_words ==
    { <<"s","h","o","w">>, <<"m","e">>, <<"f","i","n","d">>, <<"w","i","t","h">>,
      <<"t","h","e">>, <<"a","n","d">>, <<"o","r">>, <<"a">>, <<"a","n">>,
      <<"i","s">>, <<"a","r","e">>, <<"h","a","s">>, <<"h","a","v","e">>,
      <<"w","h","o">>, <<"w","h","a","t">>, <<"w","h","e","r","e">>,
      <<"w","h","e","n">>, <<"c","a","n","d","i","d","a","t","e","s">>,
      <<"e","x","p","e","r","i","e","n","c","e">>, <<"s","k","i","l","l","s">>,
      <<"a","n","y">>, <<"a","l","l">>, <<"s","o","m","e">>,
      <<"l","o","o","k","i","n","g">>, <<"f","o","r">>, <<"n","e","e","d">> }

\* the first position >= i of s that holds a quote, 0 when there is none
NextQuote(s, i) ==
    IF \E j \in i..Len(s) : s[j] = QUOTE
    THEN CHOOSE j \in i..Len(s) :
            s[j] = QUOTE /\ \A h \in i..(j - 1) : s[h] # QUOTE
    ELSE 0

\* the last position of the run of \w characters that starts at i
WordEnd(s, i) ==
    CHOOSE j \in i..Len(s) :
        /\ \A h \in i..j : IsWordChar(s[h])
        /\ (j = Len(s) \/ ~IsWordChar(s[j + 1]))

\* re.findall(r'"([^"]+)"|(\b\w+\b)', s), each match reduced to
\* `match[0] if match[0] else match[1]`, scanning from position i
RECURSIVE FindAll(_, _)
FindAll(s, i) ==
    IF i > Len(s) THEN << >>
    ELSE IF s[i] = QUOTE
    THEN LET j == NextQuote(s, i + 1)
         IN  IF j > i + 1
             THEN <<SubSeq(s, i + 1, j - 1)>> \o FindAll(s, j + 1)
             ELSE FindAll(s, i + 1)
    ELSE IF IsWordChar(s[i])
    THEN LET j == WordEnd(s, i)
         IN  <<SubSeq(s, i, j)>> \o FindAll(s, j + 1)
    ELSE FindAll(s, i + 1)

\* the filter of lines 120-123 over the list of words
RECURSIVE KeepKeywords(_)
KeepKeywords(words) ==
    IF words = << >> THEN << >>
    ELSE LET word == Head(words)
         IN  (IF Len(word) >= 2 /\ word \notin stop_words
              THEN <<word>> ELSE << >>) \o KeepKeywords(Tail(words))

ExtractKeywords(query) == KeepKeywords(FindAll(Lower(query), 1))

(***************************************************************************)
(* Record files.  A file is [ok, sections]: ok is FALSE for a file that    *)
(* json.loads or the code that reads its sections rejects.  sections has   *)
(* every key; a key the file lacks holds the default sections.get gives    *)
(* it ("" or []).                                                          *)
(***************************************************************************)
ExpDict(title, company, dates, resp) ==
    [isDict |-> TRUE, title |-> title, company |-> company, dates |-> dates,
     responsibilities |-> resp, text |-> << >>]
ExpStr(text) ==
    [isDict |-> FALSE, title |-> << >>, company |-> << >>, dates |-> << >>,
     responsibilities |-> << >>, text |-> text]
EduDict(degree, fld, institution) ==
    [isDict |-> TRUE, degree |-> degree, field |-> fld,
     institution |-> institution, text |-> << >>]
EduStr(text) ==
    [isDict |-> FALSE, degree |-> << >>, field |-> << >>,
     institution |-> << >>, text |-> text]

Sections(summary, experience, education, skills, certs) ==
    [summary |-> summary, experience |-> experience, education |-> education,
     skills |-> skills, certifications |-> certs]

GoodFile(sections) == [ok |-> TRUE, sections |-> sections]
BadFile == [ok |-> FALSE, sections |-> Sections(<< >>, << >>, << >>, << >>, << >>)]

\* the record files the model draws the corpus from
FileA == GoodFile(Sections(<< >>, << >>, << >>,
                           << <<"P","y">>, <<"S","Q","L">> >>, << >>))
FileB == GoodFile(Sections(<<"p","y"," ","g","o">>, << >>, << >>, << >>, << >>))
FileC == GoodFile(Sections(<< >>, << >>, << >>, << <<"G","o">> >>, << >>))
FileD == GoodFile(Sections(<< >>,
                           << ExpDict(<<"d","e","v">>, <<"x">>, << >>,
                                      << <<"p","y">>, <<"c">>, <<"q">>, <<"g","o">> >>),
                              ExpStr(<<"q","a">>) >>,
                           << EduStr(<<"b","s","c">>) >>, << >>, << >>))
FileE == GoodFile(Sections(<< >>, << >>, << >>, << >>, << >>))

Catalogue == << FileA, FileB, BadFile, FileC, FileD, FileE >>

RecordIds == 1..NumRecords

\* the content of JSON_PATH/<id>.json
FileOf(id) == Catalogue[((id - 1) % Len(Catalogue)) + 1]

(***************************************************************************)
(* build_resume_text (query_resumes.py:56-103)                             *)
(***************************************************************************)
RECURSIVE Join(_, _)
\* sep.join(parts)
Join(parts, sep) ==
    IF parts = << >> THEN << >>
    ELSE IF Len(parts) = 1 THEN parts[1]
    ELSE parts[1] \o sep \o Join(Tail(parts), sep)

RespShown == 3     \* responsibilities[:3], query_resumes.py:75

\* one entry of experience, lines 69-78
QExpText(exp) ==
    IF exp.isDict
    THEN <<"-"," ">> \o exp.title \o <<" ","a","t"," ">> \o exp.company
         \o (IF exp.dates # << >>
             THEN <<" ","(">> \o exp.dates \o <<")">> ELSE << >>)
         \o (IF exp.responsibilities # << >>
             THEN <<":"," ">> \o Join(PySlice(exp.responsibilities, RespShown),
                                      <<";"," ">>)
             ELSE << >>)
    ELSE <<"-"," ">> \o exp.text

\* one entry of education, lines 86-90
QEduText(edu) ==
    IF edu.isDict
    THEN <<"-"," ">> \o edu.degree \o <<" ","i","n"," ">> \o edu.field
         \o <<" ","f","r","o","m"," ">> \o edu.institution
    ELSE <<"-"," ">> \o edu.text

QBuildResumeText(sections) ==
    LET NL == <<"\n">>
        parts ==
            (IF sections.summary # << >>
             THEN << <<"S","U","M","M","A","R","Y",":"," ">> \o sections.summary >>
             ELSE << >>)
         \o (IF sections.experience # << >>
             THEN << <<"E","X","P","E","R","I","E","N","C","E",":">> \o NL
                     \o Join([i \in 1..Len(sections.experience) |->
                                 QExpText(sections.experience[i])], NL) >>
             ELSE << >>)
         \o (IF sections.education # << >>
             THEN << <<"E","D","U","C","A","T","I","O","N",":">> \o NL
                     \o Join([i \in 1..Len(sections.education) |->
                                 QEduText(sections.education[i])], NL) >>
             ELSE << >>)
         \o (IF sections.skills # << >>
             THEN << <<"S","K","I","L","L","S",":"," ">>
                     \o Join(sections.skills, <<","," ">>) >>
             ELSE << >>)
         \o (IF sections.certifications # << >>
             THEN << <<"C","E","R","T","I","F","I","C","A","T","I","O","N","S",":"," ">>
                     \o Join(sections.certifications, <<","," ">>) >>
             ELSE << >>)
    IN  Join(parts, NL \o NL)

(***************************************************************************)
(* Scores and sorting                                                      *)
(***************************************************************************)
\* the float n / d (d > 0), kept exact
Frac(n, d) == <<n, d>>
FracLess(a, b) == a[1] * b[2] < b[1] * a[2]
FracLeq(a, b) == a[1] * b[2] <= b[1] * a[2]

\* list.sort(key=...) is stable and ascending in the key: the element at
\* index i is placed after every element with a smaller key and after every
\* element of equal key that stood before it.  Each sort of the program is
\* written out below with its own key.

(***************************************************************************)
(* search_by_keywords (query_resumes.py:128-172)                           *)
(***************************************************************************)
\* lines 151-155: does keyword kw hit the record
\* variant: the full-text test alone, without the skills test
KeywordInText(kw, sections) == Contains(Lower(QBuildResumeText(sections)), kw)
KeywordHits(kw, sections) ==
    LET full_text == Lower(QBuildResumeText(sections))
        skills == [i \in 1..Len(sections.skills) |-> Lower(sections.skills[i])]
        skill_match == \E i \in 1..Len(skills) :
                          Contains(skills[i], kw) \/ Contains(kw, skills[i])
        text_match == Contains(full_text, kw)
    IN  skill_match \/ text_match

\* lines 148-156
MatchedKeywords(keywords, sections) ==
    SelectSeq(keywords, LAMBDA kw : KeywordHits(kw, sections))

ExactMatch(id, matched, keywords) ==
    [id |-> id, match_type |-> "exact", matched_keywords |-> matched,
     score |-> Frac(Len(matched), Len(keywords))]

\* lines 138-168: the matches in the order the files are listed
RECURSIVE ScanFiles(_, _)
ScanFiles(order, keywords) ==
    IF order = << >> THEN << >>
    ELSE LET id == Head(order)
             file == FileOf(id)
             matched == MatchedKeywords(keywords, file.sections)
         IN  (IF file.ok /\ matched # << >>
              THEN <<ExactMatch(id, matched, keywords)>> ELSE << >>)
             \o ScanFiles(Tail(order), keywords)

\* key=lambda x: -x["score"]
\* (LowerScore: the variant key +score)
LowerScore(a, b) == FracLess(a.score, b.score)
HigherScore(a, b) == FracLess(b.score, a.score)

\* line 171: matches.sort(key=lambda x: -x["score"])
SortByScore(matches) ==
    LET before(i) == { j \in 1..Len(matches) :
                          \/ HigherScore(matches[j], matches[i])
                          \/ j < i /\ ~HigherScore(matches[i], matches[j]) }
    IN  [p \in 1..Len(matches) |->
            matches[CHOOSE i \in 1..Len(matches) : Cardinality(before(i)) = p - 1]]

SearchByKeywords(keywords, limit, exists, order) ==
    IF ~exists \/ keywords = << >> THEN << >>
    ELSE PySlice(SortByScore(ScanFiles(order, keywords)), limit)

(***************************************************************************)
(* search_resumes (query_resumes.py:175-222)                               *)
(*                                                                         *)
(* store is the vector index as the call finds it: [exists, raises,        *)
(* ranking].  exists is CHROMA_PATH.exists(); raises says whether          *)
(* similarity_search_with_score raises; ranking is the index's neighbours  *)
(* of the query, nearest first, each [id, dist] with id the stem of        *)
(* metadata["source_file"]; the index returns the first k of them.         *)
(***************************************************************************)
SemanticMatch(id, dist) ==
    [id |-> id, match_type |-> "semantic", matched_keywords |-> << >>,
     score |-> Frac(1, 1 + dist)]

\* lines 188-191
RECURSIVE AddExact(_, _, _)
AddExact(exact, all, seen) ==
    IF exact = << >> THEN [all |-> all, seen |-> seen]
    ELSE LET m == Head(exact)
         IN  IF m.id \in seen THEN AddExact(Tail(exact), all, seen)
             ELSE AddExact(Tail(exact), Append(all, m), seen \cup {m.id})

\* line 194
SemanticAlways(all, n_results) == TRUE     \* variant: no test
SemanticNeeded(all, n_results) == Len(all) < n_results

\* lines 214-215
LoopBreaks(all, n_results) == Len(all) >= n_results

\* lines 202-203
NeverSeen(id, seen) == FALSE               \* variant: no seen_ids test
AlreadySeen(id, seen) == id \in seen

\* line 216: `except Exception` catches whatever the semantic pass raises
\* (FileNotFoundError from get_vector_store, an error of the index)
\* (CaughtIfMissing: the variant `except FileNotFoundError`)
CaughtIfMissing(exc) == exc = "FileNotFoundError"
SemanticCaught(exc) == TRUE

\* lines 199-215
RECURSIVE AddSemantic(_, _, _, _)
AddSemantic(hits, all, seen, n_results) ==
    IF hits = << >> THEN all
    ELSE LET h == Head(hits)
         IN  IF AlreadySeen(h.id, seen)
             THEN AddSemantic(Tail(hits), all, seen, n_results)
             ELSE LET all2 == Append(all, SemanticMatch(h.id, h.dist))
                  IN  IF LoopBreaks(all2, n_results) THEN all2
                      ELSE AddSemantic(Tail(hits), all2, seen \cup {h.id},
                                       n_results)

\* key=lambda x: (x.get("match_type") != "exact", -x["score"])
\* (ScoreOnly: the variant key -score alone)
ScoreOnly(a, b) == FracLess(b.score, a.score)
ExactFirst(a, b) ==
    \/ a.match_type = "exact" /\ b.match_type # "exact"
    \/ (a.match_type = "exact") = (b.match_type = "exact")
       /\ FracLess(b.score, a.score)

\* line 220: all_matches.sort(key=...)
SortExactFirst(all_matches) ==
    LET before(i) == { j \in 1..Len(all_matches) :
                          \/ ExactFirst(all_matches[j], all_matches[i])
                          \/ j < i /\ ~ExactFirst(all_matches[i], all_matches[j]) }
    IN  [p \in 1..Len(all_matches) |->
            all_matches[CHOOSE i \in 1..Len(all_matches) :
                           Cardinality(before(i)) = p - 1]]

NeighboursAsked == 3     \* k=n_results * 3, query_resumes.py:197

\* db.similarity_search_with_score(query, k): at most k neighbours
SimilaritySearch(store, k) == PySlice(store.ranking, k)

SearchResumes(query, n_results, exists, order, store) ==
    LET keywords == ExtractKeywords(query)
        exact_matches ==
            IF keywords # << >>
            THEN SearchByKeywords(keywords, n_results, exists, order)
            ELSE << >>
        step1 == AddExact(exact_matches, << >>, {})
        entered == SemanticNeeded(step1.all, n_results)
        queried == entered /\ store.exists
        answered == queried /\ ~store.raises
        exc == IF ~entered \/ answered THEN "none"
               ELSE IF ~store.exists THEN "FileNotFoundError"   \* lines 33-34
               ELSE "IndexError"
        raised == exc # "none" /\ ~SemanticCaught(exc)
        merged ==
            IF answered
            THEN AddSemantic(SimilaritySearch(store, n_results * NeighboursAsked),
                             step1.all, step1.seen, n_results)
            ELSE step1.all
    IN  [called |-> TRUE,
         query |-> query,
         n_results |-> n_results,
         store |-> store,
         keywords |-> keywords,
         exact_pass |-> keywords # << >>,       \* search_by_keywords was called
         exact_matches |-> exact_matches,
         opened |-> IF entered THEN 1 ELSE 0,    \* calls of get_vector_store
         queries |-> IF queried                   \* calls of the index
                     THEN << [query |-> query, k |-> n_results * NeighboursAsked] >>
                     ELSE << >>,
         all_matches |-> merged,                 \* the list at line 218
         raised |-> raised,                      \* the call raised: no result
         result |-> IF raised THEN << >>
                    ELSE PySlice(SortExactFirst(merged), n_results)]

(***************************************************************************)
(* build_resume_text (match_resumes.py:63-107)                             *)
(***************************************************************************)
MRespShown == 5     \* responsibilities[:5], match_resumes.py:81

\* lines 74-82: the texts of the entries that are objects
RECURSIVE MExpTexts(_)
MExpTexts(experience) ==
    IF experience = << >> THEN << >>
    ELSE LET exp == Head(experience)
         IN  (IF exp.isDict
              THEN << <<"-"," ">> \o exp.title \o <<" ","a","t"," ">> \o exp.company
                      \o (IF exp.dates # << >>
                          THEN <<" ","(">> \o exp.dates \o <<")">> ELSE << >>)
                      \o (IF exp.responsibilities # << >>
                          THEN <<":"," ">>
                               \o Join(PySlice(exp.responsibilities, MRespShown),
                                       <<";"," ">>)
                          ELSE << >>) >>
              ELSE << >>)
             \o MExpTexts(Tail(experience))

\* lines 90-93
RECURSIVE MEduTexts(_)
MEduTexts(education) ==
    IF education = << >> THEN << >>
    ELSE LET edu == Head(education)
         IN  (IF edu.isDict
              THEN << <<"-"," ">> \o edu.degree \o <<" ","i","n"," ">> \o edu.field
                      \o <<" ","f","r","o","m"," ">> \o edu.institution >>
              ELSE << >>)
             \o MEduTexts(Tail(education))

MBuildResumeText(sections) ==
    LET NL == <<"\n">>
        exp_texts == MExpTexts(sections.experience)
        edu_texts == MEduTexts(sections.education)
        parts ==
            (IF sections.summary # << >>
             THEN << <<"S","U","M","M","A","R","Y",":"," ">> \o sections.summary >>
             ELSE << >>)
         \o (IF exp_texts # << >>
             THEN << <<"E","X","P","E","R","I","E","N","C","E",":">> \o NL
                     \o Join(exp_texts, NL) >>
             ELSE << >>)
         \o (IF edu_texts # << >>
             THEN << <<"E","D","U","C","A","T","I","O","N",":">> \o NL
                     \o Join(edu_texts, NL) >>
             ELSE << >>)
         \o (IF sections.skills # << >>
             THEN << <<"S","K","I","L","L","S",":"," ">>
                     \o Join(sections.skills, <<","," ">>) >>
             ELSE << >>)
         \o (IF sections.certifications # << >>
             THEN << <<"C","E","R","T","I","F","I","C","A","T","I","O","N","S",":"," ">>
                     \o Join(sections.certifications, <<","," ">>) >>
             ELSE << >>)
    IN  Join(parts, NL \o NL)

\* `not text.strip()`: the text holds white space only
IsBlank(text) == \A i \in 1..Len(text) : text[i] \in {" ", "\n", "\t", "\r"}

(***************************************************************************)
(* match_top_candidates (match_resumes.py:252-313)                         *)
(*                                                                         *)
(* match is the call: pc is "idle" before it, "loop" inside the loop of    *)
(* lines 281-310, "returned" or "raised" after it.  A score is             *)
(* [num, val]: num is FALSE for a score the scoring response gave as a     *)
(* string or null, which unary minus rejects.                              *)
(***************************************************************************)
NoStore == [exists |-> FALSE, raises |-> FALSE, ranking |-> << >>]

MatchIdle ==
    [pc |-> "idle", n_candidates |-> 0, retriever_failed |-> FALSE,
     candidate_ids |-> << >>, json_files |-> << >>, i |-> 0,
     results |-> << >>, returned |-> << >>]

\* sorted(JSON_PATH.glob("*.json")): the ids of the listing, ascending
IdLess(a, b) == a < b
ListingOrder(order) == order               \* variant: glob order, unsorted
SortedIds(order) ==
    LET before(i) == { j \in 1..Len(order) :
                          \/ IdLess(order[j], order[i])
                          \/ j < i /\ ~IdLess(order[i], order[j]) }
    IN  [p \in 1..Len(order) |->
            order[CHOOSE i \in 1..Len(order) : Cardinality(before(i)) = p - 1]]

\* line 274: the ids whose record file exists, in the order given
\* (EveryCandidate: the variant without the exists() test)
EveryCandidate(candidate_ids, order) == candidate_ids
ExistingFiles(candidate_ids, order) ==
    SelectSeq(candidate_ids, LAMBDA cid : \E i \in 1..Len(order) : order[i] = cid)

\* lines 273-276
SelectFiles(candidate_ids, failed, n_candidates, order) ==
    IF ~failed /\ candidate_ids # << >>
    THEN PySlice(ExistingFiles(candidate_ids, order), n_candidates)
    ELSE PySlice(SortedIds(order), n_candidates)

\* lines 263-267: the ids of the search result, None (here the empty list,
\* beside retriever_failed) when the try block raised
CandidateIds(retriever_failed, search_results) ==
    IF retriever_failed THEN << >>
    ELSE [i \in 1..Len(search_results) |-> search_results[i].id]

\* lines 257-279.  found is what search_resumes(job_description,
\* n_candidates) did; failed: the import of query_resumes raises.
MatchBegin(n_candidates, failed, found, exists, order) ==
    LET retriever_failed == failed \/ found.raised
        candidate_ids == CandidateIds(failed \/ found.raised, found.result)
    IN  IF ~exists
        THEN [MatchIdle EXCEPT !.pc = "raised",                  \* line 270
                               !.n_candidates = n_candidates,
                               !.retriever_failed = retriever_failed,
                               !.candidate_ids = candidate_ids]
        ELSE [MatchIdle EXCEPT !.pc = "loop",
                               !.n_candidates = n_candidates,
                               !.retriever_failed = retriever_failed,
                               !.candidate_ids = candidate_ids,
                               !.json_files =
                                   SelectFiles(candidate_ids, retriever_failed,
                                               n_candidates, order),
                               !.i = 1]

\* lines 283-288: the candidate is dropped before it is scored
CandidateSkipped(id) ==
    \/ ~FileOf(id).ok
    \/ IsBlank(MBuildResumeText(FileOf(id).sections))

\* key=lambda x: -x["score"] over results whose scores are numbers
\* (LowerResult: the variant key +score)
LowerResult(a, b) == a.score.val < b.score.val
HigherResult(a, b) == a.score.val > b.score.val

\* line 312
SortResults(results) ==
    LET before(i) == { j \in 1..Len(results) :
                          \/ HigherResult(results[j], results[i])
                          \/ j < i /\ ~HigherResult(results[i], results[j]) }
    IN  [p \in 1..Len(results) |->
            results[CHOOSE i \in 1..Len(results) : Cardinality(before(i)) = p - 1]]

\* line 312 raises TypeError on a score that is no number
SortRaises(results) == \E i \in 1..Len(results) : ~results[i].score.num

(***************************************************************************)
(* score_resume (match_resumes.py:113-184)                                 *)
(*                                                                         *)
(* A JSON value is [t, n, u]: its type, a number and a text.  A parsed     *)
(* response is [type, has, fields, err]: `has` holds the keys k for which  *)
(* `k in result` is true, `fields` the members of an object, `err` the     *)
(* length of the message of the parse error.                               *)
(***************************************************************************)
retries == 2          \* retries: int = 2, match_resumes.py:113
DefaultScore == 50    \* result["score"] = 50, match_resumes.py:151
ParseErrShown == 50   \* str(e)[:50], match_resumes.py:172
ErrShown == 100       \* str(e)[:100], match_resumes.py:183
JsonBackoff == 10     \* time.sleep(1), in tenths of a second, match_resumes.py:165
ErrorBackoff == 20    \* time.sleep(2), in tenths of a second, match_resumes.py:176

Keys == { "score", "summary", "strengths", "gaps", "reasoning" }

JV(t, n, u) == [t |-> t, n |-> n, u |-> u]
JInt(n) == JV("int", n, "")
JNull == JV("null", 0, "")
JStr(u) == JV("str", 0, u)
JList(n, u) == JV("list", n, u)       \* a list of n strings

NoFields == [k \in {} |-> JNull]

Body(type, has, fields, err) ==
    [type |-> type, has |-> has, fields |-> fields, err |-> err]
Malformed(err) == Body("malformed", {}, NoFields, err)
Object(fields) == Body("object", DOMAIN fields, fields, 0)
NonObject(type, has) == Body(type, has, NoFields, 0)

\* lines 138-145: the text handed to json.loads.  A response is the text
\* alone ("none"), the text in a ``` fence ("bare"), in a ```json fence
\* ("json"), in a fence of another language ("tagged": the tag stays in
\* front of the text), or a fence after some prose ("prose": nothing is
\* removed).
Unfence(response) ==
    IF response.fence \in { "none", "bare", "json" } THEN response.body
    ELSE Malformed(response.err)

\* f"Match score: {result['score']}/100"
SummaryOf(score) == JV("Match score: {score}/100", score.n, score.t)

\* lines 150-159 on a dict: `if k not in result: result[k] = default`
\* (SetAlways: the variant `result[k] = default` without the test)
SetAlways(fields, k, v) ==
    [x \in DOMAIN fields \cup {k} |-> IF x = k THEN v ELSE fields[x]]
SetDefault(fields, k, v) ==
    [x \in DOMAIN fields \cup {k} |-> IF x \in DOMAIN fields THEN fields[x] ELSE v]

Defaulted(fields) ==
    LET r1 == SetDefault(fields, "score", JInt(DefaultScore))
        r2 == SetDefault(r1, "reasoning",
                         JStr("Unable to generate detailed reasoning."))
        r3 == SetDefault(r2, "strengths", JList(0, ""))
        r4 == SetDefault(r3, "gaps", JList(0, ""))
    IN  SetDefault(r4, "summary", SummaryOf(r4["score"]))

\* what score_resume returns: a dict, a value that is no dict, or None
Ret(kind, fields) == [kind |-> kind, fields |-> fields]

\* lines 167-173 and 178-184
\* (PlaceholderNoGaps: the variant with "gaps": [])
PlaceholderNoGaps(err) ==
    [k \in Keys |->
        CASE k = "score" -> JInt(0)
          [] k = "summary" -> JStr("Error parsing AI response")
          [] k = "strengths" -> JList(0, "")
          [] k = "gaps" -> JList(0, "")
          [] k = "reasoning" -> JV("JSON parsing error: {e}", err, "")]
ParsePlaceholder(err) ==
    [k \in Keys |->
        CASE k = "score" -> JInt(0)
          [] k = "summary" -> JStr("Error parsing AI response")
          [] k = "strengths" -> JList(0, "")
          [] k = "gaps" -> JList(1, "Could not analyze resume")
          [] k = "reasoning" ->
                JV("JSON parsing error: {e}",
                   IF err < ParseErrShown THEN err ELSE ParseErrShown, "")]

FailPlaceholder(err) ==
    [k \in Keys |->
        CASE k = "score" -> JInt(0)
          [] k = "summary" -> JStr("Error during analysis")
          [] k = "strengths" -> JList(0, "")
          [] k = "gaps" -> JList(1, "Analysis failed")
          [] k = "reasoning" ->
                JV("Error: {e}", IF err < ErrShown THEN err ELSE ErrShown, "")]

\* lines 128-161, one pass of the try block on one response of the
\* collaborator: the value returned, or the exception raised
AttemptOutcome(response) ==
    IF response.kind = "error"
    THEN [out |-> "APIError", value |-> Ret("None", NoFields), err |-> response.err]
    ELSE LET parsed == Unfence(response)
         IN  CASE parsed.type = "malformed" ->
                    [out |-> "JSONDecodeError", value |-> Ret("None", NoFields),
                     err |-> parsed.err]
               [] parsed.type = "object" ->
                    [out |-> "returned", value |-> Ret("dict", Defaulted(parsed.fields)),
                     err |-> 0]
               [] parsed.type \in { "list", "str" } /\ Keys \subseteq parsed.has ->
                    [out |-> "returned", value |-> Ret(parsed.type, NoFields), err |-> 0]
               [] OTHER ->
                    [out |-> "TypeError", value |-> Ret("None", NoFields),
                     err |-> response.err]

\* one thing score_resume or the matcher's loop did, in order of time
Event(ev, id, what, n, m) == [ev |-> ev, id |-> id, what |-> what, n |-> n, m |-> m]
CallEvent(id, what) == Event("call", id, what, 0, 0)
NoSleep(tenths) == Event("sleep", 0, "", 0, 0)      \* variant: sleep(0)
SleepEvent(tenths) == Event("sleep", 0, "", tenths, 0)

\* lines 126-184: the loop over the attempts, from attempt on; responses[a + 1]
\* is what the collaborator answers to the call of attempt a
RECURSIVE ScoreResumeFrom(_, _, _)
ScoreResumeFrom(attempt, id, responses) ==
    IF attempt >= retries
    THEN [result |-> Ret("None", NoFields), events |-> << >>]
    ELSE LET o == AttemptOutcome(responses[attempt + 1])
             call == CallEvent(id, o.out)
         IN  CASE o.out = "returned" ->
                    [result |-> o.value, events |-> << call >>]
               [] o.out = "JSONDecodeError" /\ attempt < retries - 1 ->
                    LET rest == ScoreResumeFrom(attempt + 1, id, responses)
                    IN  [result |-> rest.result,
                         events |-> << call, SleepEvent(JsonBackoff) >> \o rest.events]
               [] o.out = "JSONDecodeError" ->
                    [result |-> Ret("dict", ParsePlaceholder(o.err)),
                     events |-> << call >>]
               [] o.out \in { "APIError", "TypeError" } /\ attempt < retries - 1 ->
                    LET rest == ScoreResumeFrom(attempt + 1, id, responses)
                    IN  [result |-> rest.result,
                         events |-> << call, SleepEvent(ErrorBackoff) >> \o rest.events]
               [] OTHER ->
                    [result |-> Ret("dict", FailPlaceholder(o.err)),
                     events |-> << call >>]

ScoreResume(id, responses) == ScoreResumeFrom(0, id, responses)

\* scoring before score_resume is called
ScoreIdle ==
    [called |-> FALSE, responses |-> << >>,
     result |-> Ret("None", NoFields), events |-> << >>]

(***************************************************************************)
(* match_all_resumes (match_resumes.py:190-249) and match_top_candidates   *)
(* (252-313), with what goes on inside one iteration of their loops        *)
(*                                                                         *)
(* run is the call: mode "top" or "all", pc as in MatchIdle, error the     *)
(* exception that left the call, callback what the caller passed as        *)
(* progress_callback ("none", one that returns: "ok", one that raises:     *)
(* "raises"), i the position in json_files of the next candidate, events   *)
(* what happened so far: calls of the collaborator, sleeps, callbacks.     *)
(***************************************************************************)
PacingDelay == 5      \* time.sleep(0.5), in tenths of a second, match_resumes.py:306

RunIdle ==
    [pc |-> "idle", mode |-> "top", error |-> "", callback |-> "none",
     n |-> 0, retriever_failed |-> FALSE, json_files |-> << >>, total |-> 0,
     i |-> 1, results |-> << >>, events |-> << >>, returned |-> << >>]

\* lines 200-209: the start of match_all_resumes(job_description, limit)
MatchAllBegin(limit, exists, order) ==
    LET json_files == PySlice(SortedIds(order), limit)
    IN  CASE ~exists ->
               [RunIdle EXCEPT !.pc = "raised", !.error = "FileNotFoundError"]
          [] json_files = << >> ->
               [RunIdle EXCEPT !.pc = "raised", !.error = "ValueError"]
          [] OTHER ->
               [RunIdle EXCEPT !.pc = "loop", !.json_files = json_files,
                               !.total = Len(json_files)]

\* lines 257-279: the start of match_top_candidates, as MatchBegin has it
MatchTopBegin(begun) ==
    IF begun.pc = "raised"
    THEN [RunIdle EXCEPT !.pc = "raised", !.error = "FileNotFoundError",
                         !.retriever_failed = begun.retriever_failed]
    ELSE [RunIdle EXCEPT !.pc = "loop",
                         !.retriever_failed = begun.retriever_failed,
                         !.json_files = begun.json_files,
                         !.total = Len(begun.json_files)]

\* the score of a result as the sort of line 312 sees it
PyScore(v) == [num |-> v.t = "int", val |-> v.n, t |-> v.t, u |-> v.u]

\* lines 292-300 (224-232): score_result is a dict that holds every key
MatchResult(id, fields) ==
    [candidate_id |-> id,
     score |-> PyScore(fields["score"]),
     summary |-> fields["summary"],
     strengths |-> fields["strengths"],
     gaps |-> fields["gaps"],
     reasoning |-> fields["reasoning"],
     skills |-> FileOf(id).sections.skills]

CallbackEvent(id, what, current, total) == Event("callback", id, what, current, total)

\* lines 302-306 (235-240): the callback and the pacing delay after the
\* result of the candidate at position i (from 0) is appended
AfterAppend(id, i, total, callback) ==
    LET pace == IF i < total - 1 THEN << SleepEvent(PacingDelay) >> ELSE << >>
    IN  CASE callback = "none" -> pace
          [] callback = "ok" -> << CallbackEvent(id, "ok", i + 1, total) >> \o pace
          [] OTHER -> << CallbackEvent(id, "raised", i + 1, total) >>

\* lines 281-310 (211-244): one iteration of the loop on a candidate that
\* has text; scored is what score_resume did
Iteration(id, i, total, callback, scored) ==
    IF scored.result.kind # "dict"
    THEN [appended |-> << >>, events |-> scored.events]   \* .get raises, line 294
    ELSE [appended |-> << MatchResult(id, scored.result.fields) >>,
          events |-> scored.events \o AfterAppend(id, i, total, callback)]

(***************************************************************************)
(* build_sections (build_sections.py:18-77)                                *)
(***************************************************************************)
NL == <<"\n">>

\* the characters str.strip() removes and \s matches
IsSpace(c) == c \in { " ", "\t", "\n", "\r", "\f" }

\* [A-Z] and [a-z] under (?i): a letter of either case
IsLetter(c) ==
    c \in { "a", "b", "c", "d", "e", "f", "g", "h", "i", "j", "k", "l", "m",
            "n", "o", "p", "q", "r", "s", "t", "u", "v", "w", "x", "y", "z",
            "A", "B", "C", "D", "E", "F", "G", "H", "I", "J", "K", "L", "M",
            "N", "O", "P", "Q", "R", "S", "T", "U", "V", "W", "X", "Y", "Z" }

\* str.strip()
Strip(s) ==
    LET kept == { i \in 1..Len(s) : ~IsSpace(s[i]) }
    IN  IF kept = {} THEN << >>
        ELSE SubSeq(s, CHOOSE i \in kept : \A j \in kept : i <= j,
                       CHOOSE i \in kept : \A j \in kept : i >= j)

\* lines 35-36
Normalize(text) == Strip(Lower(text))

\* the names of the sections, in the order of the dict of lines 49-50
SectionNames ==
    << "summary", "experience", "education", "skills", "certifications", "other" >>

NamedSections == { "summary", "experience", "education", "skills", "certifications" }
\* lines 18-24
SECTION_KEYWORDS ==
    [ summary |->
        << <<"s","u","m","m","a","r","y">>,
           <<"p","r","o","f","e","s","s","i","o","n","a","l"," ","s","u","m","m","a","r","y">>,
           <<"p","r","o","f","i","l","e">>,
           <<"o","v","e","r","v","i","e","w">> >>,
      experience |->
        << <<"e","x","p","e","r","i","e","n","c","e">>,
           <<"p","r","o","f","e","s","s","i","o","n","a","l"," ","e","x","p","e","r","i","e","n","c","e">>,
           <<"w","o","r","k"," ","e","x","p","e","r","i","e","n","c","e">>,
           <<"e","m","p","l","o","y","m","e","n","t">> >>,
      education |->
        << <<"e","d","u","c","a","t","i","o","n">>,
           <<"e","d","u","c","a","t","i","o","n"," ","a","n","d"," ","t","r","a","i","n","i","n","g">>,
           <<"a","c","a","d","e","m","i","c">> >>,
      skills |->
        << <<"s","k","i","l","l","s">>,
           <<"s","k","i","l","l"," ","h","i","g","h","l","i","g","h","t","s">>,
           <<"c","o","r","e"," ","q","u","a","l","i","f","i","c","a","t","i","o","n","s">>,
           <<"c","o","m","p","e","t","e","n","c","i","e","s">> >>,
      certifications |->
        << <<"c","e","r","t","i","f","i","c","a","t","i","o","n","s">>,
           <<"l","i","c","e","n","s","e","s">> >> ]
\* lines 26-32: the alternatives of the first group of each pattern, in the
\* order the regular expression tries them (`certifications?` is
\* certifications, then certification)
REGEX_PATTERNS ==
    [ summary |->
        << <<"s","u","m","m","a","r","y">>,
           <<"o","b","j","e","c","t","i","v","e">>,
           <<"p","r","o","f","i","l","e">>,
           <<"o","v","e","r","v","i","e","w">> >>,
      experience |->
        << <<"e","x","p","e","r","i","e","n","c","e">>,
           <<"w","o","r","k"," ","h","i","s","t","o","r","y">>,
           <<"e","m","p","l","o","y","m","e","n","t">> >>,
      education |->
        << <<"e","d","u","c","a","t","i","o","n">>,
           <<"a","c","a","d","e","m","i","c">>,
           <<"e","d","u","c","a","t","i","o","n"," ","a","n","d"," ","t","r","a","i","n","i","n","g">> >>,
      skills |->
        << <<"s","k","i","l","l","s">>,
           <<"c","o","m","p","e","t","e","n","c","i","e","s">>,
           <<"t","e","c","h","n","o","l","o","g","i","e","s">>,
           <<"c","o","r","e"," ","q","u","a","l","i","f","i","c","a","t","i","o","n","s">> >>,
      certifications |->
        << <<"c","e","r","t","i","f","i","c","a","t","i","o","n","s">>,
           <<"c","e","r","t","i","f","i","c","a","t","i","o","n">>,
           <<"l","i","c","e","n","s","e","s">>,
           <<"l","i","c","e","n","s","e">> >> ]

\* lines 39-45: the first section one of whose keywords the normalised line
\* equals, "None" when there is none
\* (DetectBySubstring: the variant `kw in line_norm`)
DetectBySubstring(line) ==
    LET line_norm == Normalize(line)
        hit(p) == \E q \in 1..Len(SECTION_KEYWORDS[SectionNames[p]]) :
                     Contains(line_norm, SECTION_KEYWORDS[SectionNames[p]][q])
    IN  IF \E p \in 1..5 : hit(p)
        THEN SectionNames[CHOOSE p \in 1..5 : hit(p) /\ \A r \in 1..(p - 1) : ~hit(r)]
        ELSE "None"
DetectSection(line) ==
    LET line_norm == Normalize(line)
        hit(p) == \E q \in 1..Len(SECTION_KEYWORDS[SectionNames[p]]) :
                     line_norm = SECTION_KEYWORDS[SectionNames[p]][q]
    IN  IF \E p \in 1..5 : hit(p)
        THEN SectionNames[CHOOSE p \in 1..5 : hit(p) /\ \A r \in 1..(p - 1) : ~hit(r)]
        ELSE "None"

\* str.splitlines() of a text whose line breaks are "\n"
RECURSIVE SplitLines(_)
SplitLines(text) ==
    IF text = << >> THEN << >>
    ELSE IF \E i \in 1..Len(text) : text[i] = "\n"
    THEN LET nl == CHOOSE i \in 1..Len(text) :
                      text[i] = "\n" /\ \A j \in 1..(i - 1) : text[j] # "\n"
         IN  << SubSeq(text, 1, nl - 1) >> \o SplitLines(SubSeq(text, nl + 1, Len(text)))
    ELSE << text >>

EmptyBuffer == [k \in { SectionNames[p] : p \in 1..6 } |-> << >>]

\* lines 53-65: the line-based pass, from the lines left
RECURSIVE LinePass(_, _, _)
LinePass(lines, current, buffer) ==
    IF lines = << >> THEN buffer
    ELSE LET line == Head(lines)
         IN  IF Strip(line) = << >>
             THEN LinePass(Tail(lines), current, buffer)
             ELSE IF DetectSection(line) # "None"
             THEN LinePass(Tail(lines), DetectSection(line), buffer)
             ELSE LinePass(Tail(lines), current,
                           [buffer EXCEPT ![current] = Append(@, line)])

\* lines 67-68
JoinBuffer(buffer) == [k \in DOMAIN buffer |-> Strip(Join(buffer[k], NL))]

\* re.search(pattern, text, re.DOTALL | re.MULTILINE), lines 27-31 and 73:
\* one alternative of the first group at position s, without regard to case
LiteralAt(text, s, alt) ==
    /\ s + Len(alt) - 1 <= Len(text)
    /\ \A j \in 1..Len(alt) : LowerChar(text[s + j - 1]) = alt[j]

\* [\s:]
IsSep(c) == IsSpace(c) \/ c = ":"

\* the group and one [\s:] at least match at s
HeadAt(text, s, alts) ==
    \E a \in 1..Len(alts) :
       /\ LiteralAt(text, s, alts[a])
       /\ s + Len(alts[a]) <= Len(text)
       /\ IsSep(text[s + Len(alts[a])])

\* (?=\n[A-Z][a-z ]+|\Z) at position e
Lookahead(text, e) ==
    \/ e = Len(text) + 1
    \/ /\ e + 2 <= Len(text)
       /\ text[e] = "\n"
       /\ IsLetter(text[e + 1])
       /\ IsLetter(text[e + 2]) \/ text[e + 2] = " "

\* the match: the leftmost position, the first alternative that matches
\* there, the longest run of [\s:], the shortest group 2 after which the
\* lookahead holds
RegexSearch(text, alts) ==
    IF ~\E s \in 1..Len(text) : HeadAt(text, s, alts)
    THEN [matched |-> FALSE, group2 |-> << >>]
    ELSE LET s == CHOOSE p \in 1..Len(text) :
                     HeadAt(text, p, alts) /\ \A r \in 1..(p - 1) : ~HeadAt(text, r, alts)
             ok(a) == /\ LiteralAt(text, s, alts[a])
                      /\ s + Len(alts[a]) <= Len(text)
                      /\ IsSep(text[s + Len(alts[a])])
             a == CHOOSE b \in 1..Len(alts) : ok(b) /\ \A c \in 1..(b - 1) : ~ok(c)
             g == CHOOSE p \in (s + Len(alts[a]) + 1)..(Len(text) + 1) :
                     /\ \A r \in (s + Len(alts[a]))..(p - 1) : IsSep(text[r])
                     /\ p = Len(text) + 1 \/ ~IsSep(text[p])
             e == CHOOSE p \in g..(Len(text) + 1) :
                     Lookahead(text, p) /\ \A r \in g..(p - 1) : ~Lookahead(text, r)
         IN  [matched |-> TRUE, group2 |-> SubSeq(text, g, e - 1)]

\* lines 72-75 for one section: joined is what the line pass left
\* (FallbackAlways: the variant without `if not sections.get(section)`)
FallbackAlways(joined, found) ==
    IF found.matched THEN Strip(found.group2) ELSE joined
Fallback(joined, found) ==
    IF joined = << >> /\ found.matched THEN Strip(found.group2) ELSE joined

\* lines 70-75
RegexPass(sections, text) ==
    [k \in DOMAIN sections |->
        IF k \in NamedSections
        THEN Fallback(sections[k], RegexSearch(text, REGEX_PATTERNS[k]))
        ELSE sections[k]]

\* line 77 (KeepAll: the variant that returns every section)
KeepAll(sections) == sections
NonEmpty(sections) ==
    [k \in { x \in DOMAIN sections : sections[x] # << >> } |-> sections[k]]

\* lines 48-77: buffer after the line pass, sections after line 68 (joined)
\* and after the fallback (filled), and the dict returned
BuildSections(text) ==
    LET buffer == LinePass(SplitLines(text), "other", EmptyBuffer)
        joined == JoinBuffer(buffer)
        filled == RegexPass(joined, text)
    IN  [buffer |-> buffer, joined |-> joined, filled |-> filled,
         output |-> NonEmpty(filled)]

\* seg before build_sections is called
SegIdle == [called |-> FALSE, lines |-> << >>, text |-> << >>,
            built |-> [buffer |-> EmptyBuffer, joined |-> EmptyBuffer,
                       filled |-> EmptyBuffer, output |-> EmptyBuffer]]

(***************************************************************************)
(* clean_text (clean_text_to_json.py:18-31)                                *)
(***************************************************************************)
MaxTextLen == 5       \* clean_text: length of the text, in characters
MaxApply == 2         \* clean_text: times it is applied in a row

\* s starts with sub
StartsWith(s, sub) == Len(sub) <= Len(s) /\ SubSeq(s, 1, Len(sub)) = sub

\* text.replace(old, new), old not empty: the occurrences of old from left
\* to right, none overlapping another
RECURSIVE Replace(_, _, _)
Replace(text, old, new) ==
    IF text = << >> THEN << >>
    ELSE IF StartsWith(text, old)
         THEN new \o Replace(SubSeq(text, Len(old) + 1, Len(text)), old, new)
         ELSE << Head(text) >> \o Replace(Tail(text), old, new)

\* the length of the run of characters of `chars` text starts with
RECURSIVE RunLength(_, _)
RunLength(text, chars) ==
    IF text = << >> \/ Head(text) \notin chars THEN 0
    ELSE 1 + RunLength(Tail(text), chars)

\* re.sub(r"[chars]{atLeast,}", repl, text): every longest run of at least
\* atLeast characters of `chars` becomes repl
RECURSIVE SubRuns(_, _, _, _)
SubRuns(text, chars, atLeast, repl) ==
    IF text = << >> THEN << >>
    ELSE LET r == RunLength(text, chars)
         IN  IF r = 0
             THEN << Head(text) >> \o SubRuns(Tail(text), chars, atLeast, repl)
             ELSE (IF r >= atLeast THEN repl ELSE SubSeq(text, 1, r))
                  \o SubRuns(SubSeq(text, r + 1, Len(text)), chars, atLeast, repl)

\* line 23
NormalizeBreaks(text) == Replace(Replace(text, <<"\r","\n">>, <<"\n">>), <<"\r">>, <<"\n">>)
\* line 26
CollapseBlanks(text) == SubRuns(text, { " ", "\t" }, 1, <<" ">>)
\* line 29
CollapseEmptyLines(text) == SubRuns(text, { "\n" }, 3, <<"\n","\n">>)

\* lines 18-31
\* (EmptyLinesFirst: the variant that runs line 29 before line 23)
EmptyLinesFirst(text) ==
    IF text = << >> THEN << >>
    ELSE Strip(CollapseBlanks(NormalizeBreaks(CollapseEmptyLines(text))))
CleanText(text) ==
    IF text = << >> THEN << >>
    ELSE Strip(CollapseEmptyLines(CollapseBlanks(NormalizeBreaks(text))))

\* norm before clean_text is applied: the text, and what each application
\* in a row returned
NormIdle == [text |-> << >>, outs |-> << >>]

(***************************************************************************)
(* build_resume_text of the retriever and of the matcher on one record     *)
(***************************************************************************)
\* comp before the composers are called
CompIdle ==
    [called |-> FALSE, sections |-> Sections(<< >>, << >>, << >>, << >>, << >>),
     retriever |-> << >>, matcher |-> << >>]

(***************************************************************************)
(* section_with_llm and process_all_txt (section_resumes.py:44-244),       *)
(* process_single_resume (components/helpers.py:36-62)                     *)
(*                                                                         *)
(* The collaborator is opaque: what it answers does not depend on the text *)
(* it is sent, so a document is its stem alone.  An error is the text of   *)
(* its message, which lines 160-177 search.  A value json.loads returns is *)
(* [type, fields, writable]: writable is FALSE for a value that holds a    *)
(* lone surrogate ("\ud800"), which json.dump(ensure_ascii=False) cannot   *)
(* write to a utf-8 file.                                                  *)
(***************************************************************************)
GROQ_PRIMARY == "llama-3.3-70b-versatile"
GROQ_FALLBACK == "llama-3.1-8b-instant"
OLLAMA_MODEL == "llama3.2"

SectionRetries == 3          \* retries: int = 3, section_resumes.py:119
SwitchPause == 20            \* time.sleep(2), in tenths of a second, section_resumes.py:164
BackoffStep == 20            \* (attempt + 1) * 2, in tenths of a second, section_resumes.py:183
DELAY_BETWEEN_CALLS == 30    \* 3 seconds, in tenths of a second, section_resumes.py:53

\* the provider's message for a daily token limit
DailyLimitError ==
    <<"E","r","r","o","r"," ","c","o","d","e",":"," ","4","2","9"," ","-",
      " ","R","a","t","e"," ","l","i","m","i","t"," ","r","e","a","c","h",
      "e","d"," ","o","n"," ","t","o","k","e","n","s"," ","p","e","r"," ",
      "d","a","y"," ","(","T","P","D",")">>

\* the provider's message for a limit per minute
MinuteLimitError ==
    <<"E","r","r","o","r"," ","c","o","d","e",":"," ","4","2","9"," ","-",
      " ","R","a","t","e"," ","l","i","m","i","t"," ","r","e","a","c","h",
      "e","d"," ","o","n"," ","t","o","k","e","n","s"," ","p","e","r"," ",
      "m","i","n","u","t","e"," ","(","T","P","M",")">>

\* the client's message when the provider cannot be reached
ConnectionError ==
    <<"C","o","n","n","e","c","t","i","o","n"," ","e","r","r","o","r",".">>

\* line 142
EmptyResponseError ==
    <<"E","m","p","t","y"," ","r","e","s","p","o","n","s","e"," ","f","r",
      "o","m"," ","L","L","M">>

\* helpers.py line 55
FailedPrefix ==
    <<"L","L","M"," ","p","r","o","c","e","s","s","i","n","g"," ","f","a",
      "i","l","e","d",":"," ">>

\* helpers.py line 46
NoTextError ==
    <<"C","o","u","l","d"," ","n","o","t"," ","e","x","t","r","a","c","t",
      " ","t","e","x","t"," ","f","r","o","m"," ","P","D","F">>

\* str(n) for n >= 0
RECURSIVE Digits(_)
Digits(n) ==
    LET d == <<"0","1","2","3","4","5","6","7","8","9">>[(n % 10) + 1]
    IN  IF n < 10 THEN << d >> ELSE Digits(n \div 10) \o << d >>

\* str(e) of the JSONDecodeError json.loads raises for a text of one line
\* that stops being JSON at character pos
DecodeError(pos) ==
    <<"E","x","p","e","c","t","i","n","g"," ","v","a","l","u","e",":"," ",
      "l","i","n","e"," ","1"," ","c","o","l","u","m","n"," ">>
    \o Digits(pos + 1) \o <<" ","(","c","h","a","r"," ">> \o Digits(pos) \o <<")">>

\* the sections json.loads returns
SectionKeys == { "summary", "experience", "education", "skills", "certifications", "other" }
NoSections == [k \in {} |-> JNull]
Parsed(type, fields, writable) == [type |-> type, fields |-> fields, writable |-> writable]
NoValue == Parsed("none", NoSections, TRUE)

\* what the collaborator does at one call: raise msg ("error"), or answer
\* with a content: None or white space ("blank"), a text that is no JSON
\* from character pos on ("malformed"), or the JSON text of value
\* ("json"); fence as for Unfence
LlmResponse(kind, msg, fence, pos, value) ==
    [kind |-> kind, msg |-> msg, fence |-> fence, pos |-> pos, value |-> value]
LlmError(msg) == LlmResponse("error", msg, "none", 0, NoValue)
LlmBlank == LlmResponse("blank", << >>, "none", 0, NoValue)
LlmMalformed(pos) == LlmResponse("malformed", << >>, "none", pos, NoValue)
LlmJson(fence, value) == LlmResponse("json", << >>, fence, 0, value)

\* lines 126-151, one pass of the try block: the value returned, or the
\* message of the exception raised
LlmAttempt(response) ==
    CASE response.kind = "error" ->
           [raised |-> TRUE, msg |-> response.msg, value |-> NoValue]
      [] response.kind = "blank" ->                                \* line 142
           [raised |-> TRUE, msg |-> EmptyResponseError, value |-> NoValue]
      [] response.kind = "malformed" ->                            \* line 151
           [raised |-> TRUE, msg |-> DecodeError(response.pos), value |-> NoValue]
      [] response.fence \in { "tagged", "prose" } ->               \* lines 147-151
           [raised |-> TRUE, msg |-> DecodeError(0), value |-> NoValue]
      [] OTHER ->
           [raised |-> FALSE, msg |-> << >>, value |-> response.value]

\* lines 157-174: the provider and the model after an error of message
\* msg, and whether the attempt ends there with a switch (pause: the sleep
\* before the next attempt)
Global(provider, model) == [provider |-> provider, model |-> model]
OnError(provider, model, msg) ==
    LET has429 == Contains(msg, <<"4","2","9">>)
        daily == has429 /\ Contains(Lower(msg),
                                    <<"t","o","k","e","n","s"," ","p","e","r"," ","d","a","y">>)
        stay == [global |-> Global(provider, model), switched |-> FALSE, pause |-> 0]
        ollama == [global |-> Global("ollama", OLLAMA_MODEL), switched |-> TRUE, pause |-> 0]
    IN  IF provider # "groq" THEN stay
        ELSE CASE daily /\ model = GROQ_PRIMARY ->
                    [global |-> Global("groq", GROQ_FALLBACK), switched |-> TRUE,
                     pause |-> SwitchPause]
               [] daily /\ model = GROQ_FALLBACK -> ollama
               [] has429 /\ model = GROQ_FALLBACK -> ollama
               [] OTHER -> stay

\* the attempt after one that ended with a switch: `continue` in the for
\* loop (SwitchIsFree: the variant in which a switch uses up no attempt)
SwitchIsFree(attempt) == attempt
AfterSwitch(attempt) == attempt + 1

\* lines 124-189: the loop over the attempts, from attempt on, with the
\* globals as they are; responses[a + 1] is what the collaborator does at
\* the call of attempt a, last_error the message of the last exception
RECURSIVE SectionFrom(_, _, _, _, _)
SectionFrom(attempt, doc, global, responses, last_error) ==
    IF attempt >= SectionRetries
    THEN [out |-> "raised", value |-> NoValue, error |-> last_error,
          global |-> global, events |-> << >>]
    ELSE LET a == LlmAttempt(responses[attempt + 1])
             call == Event("call", doc, global.model, attempt, 0)
         IN  IF ~a.raised
             THEN [out |-> "returned", value |-> a.value, error |-> << >>,
                   global |-> global, events |-> << call >>]
             ELSE LET s == OnError(global.provider, global.model, a.msg)
                      next == IF s.switched THEN AfterSwitch(attempt) ELSE attempt + 1
                      wait == CASE s.switched /\ s.pause > 0 -> << SleepEvent(s.pause) >>
                                [] s.switched -> << >>
                                [] attempt < SectionRetries - 1 ->
                                       << SleepEvent((attempt + 1) * BackoffStep) >>
                                [] OTHER -> << >>
                      rest == SectionFrom(next, doc, s.global, responses, a.msg)
                  IN  [rest EXCEPT !.events = << call >> \o wait \o @]

SectionWithLlm(doc, global, responses) == SectionFrom(0, doc, global, responses, << >>)

\* the last section_with_llm call: by whom ("none", "batch", "single"),
\* for which document, what the collaborator did at its calls, and what
\* it did
NoCall ==
    [by |-> "none", doc |-> 0, responses |-> << >>, out |-> "none",
     value |-> NoValue, error |-> << >>, events |-> << >>]

\* lines 226-233: the file process_all_txt leaves for a document: the
\* record, or what json.dump wrote before it raised
Record(doc, sections) ==
    [source_txt |-> doc, sections |-> sections, complete |-> sections.writable]

\* the record of a document processed before the model starts
OldSections == Parsed("object", [k \in { "skills" } |-> JList(1, "Old")], TRUE)

NoOutput == [d \in {} |-> Record(0, NoValue)]

\* llm before anything is called: the globals as lines 49-50 set them, the
\* stems of INPUT_DIR/*.txt in the order glob() lists them (input), the
\* records of OUTPUT_DIR by stem (output), pc "idle" or "batch" (inside
\* the loop of process_all_txt), the pending files of the run and the
\* position (from 1) of the next one, the documents the run has called
\* section_with_llm for so far (attempted), what process_single_resume
\* returned last (single)
NoResult == [kind |-> "none", message |-> << >>, sections |-> NoValue]
LlmIdle ==
    [global |-> Global("groq", GROQ_PRIMARY), input |-> << >>, output |-> NoOutput,
     pc |-> "idle", pending |-> << >>, i |-> 1, runs |-> 0, singles |-> 0,
     attempted |-> << >>, last |-> NoCall, single |-> NoResult]

\* lines 192-213: the start of process_all_txt
ProcessAllBegin(l) ==
    LET pending_files == SelectSeq(l.input, LAMBDA f : f \notin DOMAIN l.output)
    IN  [l EXCEPT !.global = Global("groq", GROQ_PRIMARY),
                  !.pc = IF pending_files = << >> THEN "idle" ELSE "batch",
                  !.pending = pending_files,
                  !.i = 1,
                  !.runs = @ + 1,
                  !.attempted = << >>]

\* the position of the next file after the one at position i (from 1):
\* the except of lines 241-242 ends the iteration, not the loop
\* (StopOnError: the variant that leaves the loop on an error)
StopOnError(i, failed, total) == IF failed THEN total + 1 ELSE i + 1
NextFile(i, failed, total) == i + 1

\* lines 215-242: the iteration on the pending file at position l.i, the
\* collaborator doing `responses`
ProcessAllIteration(l, responses) ==
    LET file == l.pending[l.i]
        total == Len(l.pending)
        called == SectionWithLlm(file, l.global, responses)
        written == called.out = "returned"
        failed == ~written \/ ~called.value.writable
        delay == IF ~failed /\ called.global.provider = "groq" /\ l.i - 1 < total - 1
                 THEN << SleepEvent(DELAY_BETWEEN_CALLS) >> ELSE << >>
    IN  [l EXCEPT !.global = called.global,
                  !.output = IF written
                             THEN [d \in DOMAIN @ \cup { file } |->
                                      IF d = file THEN Record(file, called.value)
                                      ELSE @[d]]
                             ELSE @,
                  !.i = NextFile(l.i, failed, total),
                  !.attempted = Append(@, file),
                  !.last = [by |-> "batch", doc |-> file, responses |-> responses,
                            out |-> called.out,
                            value |-> called.value, error |-> called.error,
                            events |-> called.events \o delay]]

\* helpers.py lines 36-62: process_single_resume on an upload (document
\* 0); blank: no text could be extracted from the PDF
ProcessSingleResume(l, blank, responses) ==
    IF blank
    THEN [l EXCEPT !.singles = @ + 1,
                   !.single = [kind |-> "error", message |-> NoTextError,
                               sections |-> NoValue]]
    ELSE LET called == SectionWithLlm(0, l.global, responses)
         IN  [l EXCEPT !.global = called.global,
                       !.singles = @ + 1,
                       !.last = [by |-> "single", doc |-> 0, responses |-> responses,
                                 out |-> called.out,
                                 value |-> called.value, error |-> called.error,
                                 events |-> called.events],
                       !.single = IF called.out = "returned"
                                  THEN [kind |-> "ok", message |-> << >>,
                                        sections |-> called.value]
                                  ELSE [kind |-> "error",
                                        message |-> FailedPrefix \o called.error,
                                        sections |-> NoValue]]

(***************************************************************************)
(* Specification of extract_keywords alone, over every bounded query       *)
(***************************************************************************)
\* search before search_resumes is called
NoSearch ==
    [called |-> FALSE, query |-> << >>, n_results |-> 0, store |-> NoStore,
     keywords |-> << >>, exact_pass |-> FALSE, exact_matches |-> << >>,
     opened |-> 0, queries |-> << >>, all_matches |-> << >>, raised |-> FALSE,
     result |-> << >>]

QueryAlphabet == { "a", "n", "D", " ", QUOTE }

InitKw ==
    /\ kwQuery \in StrUpTo(QueryAlphabet, MaxQueryLen)
    /\ kwResult = NotCalled
    /\ dirExists = FALSE
    /\ dirOrder = << >>
    /\ search = NoSearch
    /\ match = MatchIdle
    /\ scoring = ScoreIdle
    /\ run = RunIdle
    /\ seg = SegIdle
    /\ norm = NormIdle
    /\ comp = CompIdle
    /\ llm = LlmIdle

ExtractKeywordsCall ==
    /\ kwResult = NotCalled
    /\ kwResult' = ExtractKeywords(kwQuery)
    /\ UNCHANGED <<kwQuery, dirExists, dirOrder, search, match, scoring, run, seg, norm, comp, llm>>

NextKw == ExtractKeywordsCall

SpecKw == InitKw /\ [][NextKw]_vars

(***************************************************************************)
(* Specification of the retriever: one search_resumes call on any corpus   *)
(***************************************************************************)
\* the listings glob() can give: every order of every set of record files
Listings ==
    { s \in UNION { [1..m -> RecordIds] : m \in 0..NumRecords } :
        \A i, j \in 1..Len(s) : i # j => s[i] # s[j] }

\* the queries the model asks
Queries ==
    { << >>,                                              \* ""
      <<"P","y">>,                                        \* "Py"
      <<"p","y"," ","g","o">>,                            \* "py go"
      <<"p","y"," ","p","y"," ","s","q","l">>,            \* "py py sql"
      <<QUOTE,"p","y"," ","s","q","l",QUOTE>>,            \* '"py sql"'
      <<"f","i","n","d"," ","a">> }                       \* "find a"

Distances == {0, 1}

Hits == [id : RecordIds, dist : Distances]

Rankings == UNION { [1..m -> Hits] : m \in 0..MaxHits }

Stores ==
    { NoStore,
      [exists |-> TRUE, raises |-> TRUE, ranking |-> << >>] }
    \cup { [exists |-> TRUE, raises |-> FALSE, ranking |-> r] : r \in Rankings }

Init ==
    /\ kwQuery = << >>
    /\ kwResult = NotCalled
    /\ dirExists \in BOOLEAN
    /\ dirOrder \in (IF dirExists THEN Listings ELSE { << >> })
    /\ search = NoSearch
    /\ match = MatchIdle
    /\ scoring = ScoreIdle
    /\ run = RunIdle
    /\ seg = SegIdle
    /\ norm = NormIdle
    /\ comp = CompIdle
    /\ llm = LlmIdle

\* the stores worth telling apart for a call: every one when the call
\* reaches get_vector_store, else a missing and a built one
StoresFor(query, n_results) ==
    IF SearchResumes(query, n_results, dirExists, dirOrder, NoStore).opened > 0
    THEN Stores
    ELSE { NoStore,
           [exists |-> TRUE, raises |-> FALSE,
            ranking |-> << [id |-> 1, dist |-> 0] >>] }

SearchResumesCall ==
    /\ ~search.called
    /\ \E query \in Queries, n_results \in 0..MaxK :
          \E store \in StoresFor(query, n_results) :
             search' = SearchResumes(query, n_results, dirExists, dirOrder, store)
    /\ UNCHANGED <<kwQuery, kwResult, dirExists, dirOrder, match, scoring, run, seg, norm, comp, llm>>

Next == SearchResumesCall

Spec == Init /\ [][Next]_vars

(***************************************************************************)
(* Specification of the matcher: one match_top_candidates call             *)
(***************************************************************************)
\* the job descriptions the model matches against
Jobs ==
    { << >>,                                              \* ""
      <<"P","y">>,                                        \* "Py"
      <<"p","y"," ","g","o">> }                           \* "py go"

\* the vector stores the matcher's search finds
MatchStores ==
    { NoStore }
    \cup { [exists |-> TRUE, raises |-> FALSE, ranking |-> r] :
             r \in UNION { [1..m -> [id : RecordIds, dist : {0}]] : m \in 0..MaxHits } }

\* the scores score_resume returns: a number of the response, the 50 of a
\* response without score, the 0 of the placeholders, or no number
ScoreValues ==
    { [num |-> TRUE, val |-> 0], [num |-> TRUE, val |-> 50],
      [num |-> TRUE, val |-> 90], [num |-> FALSE, val |-> 0] }

MatchStart ==
    /\ match.pc = "idle"
    /\ \E job \in Jobs, n \in 0..MaxK, failed \in BOOLEAN :
          \E store \in (IF failed THEN { NoStore } ELSE MatchStores) :
             \E found \in { SearchResumes(job, n, dirExists, dirOrder, store) } :
                match' = MatchBegin(n, failed, found, dirExists, dirOrder)
    /\ UNCHANGED <<kwQuery, kwResult, dirExists, dirOrder, search, scoring, run, seg, norm, comp, llm>>

\* lines 281-288, 308-310: the candidate is unreadable or has no text
SkipCandidate ==
    /\ match.pc = "loop"
    /\ match.i <= Len(match.json_files)
    /\ CandidateSkipped(match.json_files[match.i])
    /\ match' = [match EXCEPT !.i = @ + 1]
    /\ UNCHANGED <<kwQuery, kwResult, dirExists, dirOrder, search, scoring, run, seg, norm, comp, llm>>

\* lines 281-306: the candidate is scored and its result appended
ScoreCandidate ==
    /\ match.pc = "loop"
    /\ match.i <= Len(match.json_files)
    /\ ~CandidateSkipped(match.json_files[match.i])
    /\ \E score \in ScoreValues :
          match' = [match EXCEPT
                      !.results = Append(@, [candidate_id |-> match.json_files[match.i],
                                             score |-> score]),
                      !.i = @ + 1]
    /\ UNCHANGED <<kwQuery, kwResult, dirExists, dirOrder, search, scoring, run, seg, norm, comp, llm>>

\* lines 312-313
MatchFinish ==
    /\ match.pc = "loop"
    /\ match.i > Len(match.json_files)
    /\ match' = IF SortRaises(match.results)
                THEN [match EXCEPT !.pc = "raised"]
                ELSE [match EXCEPT !.pc = "returned",
                                   !.returned = SortResults(match.results)]
    /\ UNCHANGED <<kwQuery, kwResult, dirExists, dirOrder, search, scoring, run, seg, norm, comp, llm>>

NextMatch == MatchStart \/ SkipCandidate \/ ScoreCandidate \/ MatchFinish

SpecMatch == Init /\ [][NextMatch]_vars

(***************************************************************************)
(* Specification of score_resume alone, over the collaborator's responses  *)
(***************************************************************************)
\* the scores a response gives: in range, out of range, null, a string
ScoreVals == { JInt(85), JInt(150), JNull, JStr("85") }

PresentValue(k, score) ==
    CASE k = "score" -> score
      [] k = "summary" -> JStr("a summary")
      [] k = "strengths" -> JList(2, "a strength")
      [] k = "gaps" -> JList(1, "a gap")
      [] k = "reasoning" -> JStr("a reasoning")

\* every JSON object over the five keys
Objects ==
    { [k \in S |-> PresentValue(k, score)] : S \in SUBSET Keys, score \in ScoreVals }

Bodies ==
    { Malformed(41), Malformed(75) }
    \cup { Object(f) : f \in Objects }
    \cup { NonObject("null", {}), NonObject("number", {}),
           NonObject("list", Keys), NonObject("list", {"score"}),
           NonObject("str", Keys), NonObject("str", {}) }

Response(kind, fence, body, err) ==
    [kind |-> kind, fence |-> fence, body |-> body, err |-> err]

FullObject(score) == Object([k \in Keys |-> PresentValue(k, score)])

Responses ==
    { Response("error", "none", Malformed(0), 30),
      Response("error", "none", Malformed(0), 120) }
    \cup { Response("text", "none", b, 41) : b \in Bodies }
    \cup { Response("text", f, FullObject(JInt(85)), 41) :
              f \in { "bare", "json", "tagged", "prose" } }
    \cup { Response("text", "json", Malformed(41), 41) }

\* the answers to the attempts: a second one only when the first attempt
\* is retried
ResponseLists ==
    { rs \in [1..retries -> Responses] :
        \A a \in 2..retries :
           AttemptOutcome(rs[a - 1]).out = "returned" => rs[a] = rs[a - 1] }

InitScore ==
    /\ kwQuery = << >>
    /\ kwResult = NotCalled
    /\ dirExists = FALSE
    /\ dirOrder = << >>
    /\ search = NoSearch
    /\ match = MatchIdle
    /\ scoring \in { [ScoreIdle EXCEPT !.responses = rs] : rs \in ResponseLists }
    /\ run = RunIdle
    /\ seg = SegIdle
    /\ norm = NormIdle
    /\ comp = CompIdle
    /\ llm = LlmIdle

ScoreResumeCall ==
    /\ ~scoring.called
    /\ \E scored \in { ScoreResume(0, scoring.responses) } :
          scoring' = [scoring EXCEPT !.called = TRUE,
                                     !.result = scored.result,
                                     !.events = scored.events]
    /\ UNCHANGED <<kwQuery, kwResult, dirExists, dirOrder, search, match, run, seg, norm, comp, llm>>

NextScore == ScoreResumeCall

SpecScore == InitScore /\ [][NextScore]_vars

(***************************************************************************)
(* Specification of a matching run: one match_top_candidates or            *)
(* match_all_resumes call, iteration by iteration                          *)
(***************************************************************************)
\* the listings of the run: every set of records, listed last first
RunListings ==
    { s \in UNION { [1..m -> RecordIds] : m \in 0..NumRecords } :
        \A i, j \in 1..Len(s) : i < j => s[i] > s[j] }

RunJob == <<"p","y"," ","g","o">>                         \* "py go"

\* what the collaborator answers during a run
RunResponses ==
    { Response("text", "none", Malformed(41), 41),
      Response("error", "none", Malformed(0), 30),
      Response("text", "none", FullObject(JInt(85)), 41),
      Response("text", "none", FullObject(JInt(150)), 41),
      Response("text", "none", FullObject(JNull), 41),
      Response("text", "none", Object(NoFields), 41),
      Response("text", "none", NonObject("str", Keys), 41) }

RunResponseLists ==
    { rs \in [1..retries -> RunResponses] :
        \A a \in 2..retries :
           AttemptOutcome(rs[a - 1]).out = "returned" => rs[a] = rs[a - 1] }

InitRun ==
    /\ kwQuery = << >>
    /\ kwResult = NotCalled
    /\ dirExists \in BOOLEAN
    /\ dirOrder \in (IF dirExists THEN RunListings ELSE { << >> })
    /\ search = NoSearch
    /\ match = MatchIdle
    /\ scoring = ScoreIdle
    /\ run = RunIdle
    /\ seg = SegIdle
    /\ norm = NormIdle
    /\ comp = CompIdle
    /\ llm = LlmIdle

\* match_top_candidates(RunJob, n, callback) starts; the vector store is
\* missing, so the retriever gives its exact matches
RunTopStart ==
    /\ run.pc = "idle"
    /\ \E n \in 0..MaxK, failed \in BOOLEAN, callback \in { "none", "ok", "raises" } :
          \E found \in { SearchResumes(RunJob, n, dirExists, dirOrder, NoStore) } :
             \E begun \in { MatchBegin(n, failed, found, dirExists, dirOrder) } :
                run' = [MatchTopBegin(begun) EXCEPT !.mode = "top", !.n = n,
                                                    !.callback = callback]
    /\ UNCHANGED <<kwQuery, kwResult, dirExists, dirOrder, search, match, scoring, seg, norm, comp, llm>>

\* match_all_resumes(job, limit, callback) starts
RunAllStart ==
    /\ run.pc = "idle"
    /\ \E limit \in 0..MaxK, callback \in { "none", "ok", "raises" } :
          run' = [MatchAllBegin(limit, dirExists, dirOrder) EXCEPT
                     !.mode = "all", !.n = limit, !.callback = callback]
    /\ UNCHANGED <<kwQuery, kwResult, dirExists, dirOrder, search, match, scoring, seg, norm, comp, llm>>

\* lines 281-288, 308-310: the record is unreadable or has no text
RunSkip ==
    /\ run.pc = "loop"
    /\ run.i <= run.total
    /\ CandidateSkipped(run.json_files[run.i])
    /\ run' = [run EXCEPT !.i = @ + 1]
    /\ UNCHANGED <<kwQuery, kwResult, dirExists, dirOrder, search, match, scoring, seg, norm, comp, llm>>

\* lines 281-310: the candidate is scored
RunScore ==
    /\ run.pc = "loop"
    /\ run.i <= run.total
    /\ ~CandidateSkipped(run.json_files[run.i])
    /\ \E rs \in RunResponseLists :
          \E scored \in { ScoreResume(run.json_files[run.i], rs) } :
             \E done \in { Iteration(run.json_files[run.i], run.i - 1, run.total,
                                     run.callback, scored) } :
                run' = [run EXCEPT !.results = @ \o done.appended,
                                   !.events = @ \o done.events,
                                   !.i = @ + 1]
    /\ UNCHANGED <<kwQuery, kwResult, dirExists, dirOrder, search, match, scoring, seg, norm, comp, llm>>

\* lines 312-313 (247-249)
RunFinish ==
    /\ run.pc = "loop"
    /\ run.i > run.total
    /\ run' = IF SortRaises(run.results)
              THEN [run EXCEPT !.pc = "raised", !.error = "TypeError"]
              ELSE [run EXCEPT !.pc = "returned",
                               !.returned = SortResults(run.results)]
    /\ UNCHANGED <<kwQuery, kwResult, dirExists, dirOrder, search, match, scoring, seg, norm, comp, llm>>

NextRun == RunTopStart \/ RunAllStart \/ RunSkip \/ RunScore \/ RunFinish

SpecRun == InitRun /\ [][NextRun]_vars

(***************************************************************************)
(* Specification of build_sections alone, over texts of a few lines        *)
(***************************************************************************)
\* the lines the texts are made of
SegLines ==
    { <<"S","k","i","l","l","s">>,
      <<" ","s","k","i","l","l","s"," ">>,
      <<"S","k","i","l","l","s",":"," ","p","y">>,
      <<"C","o","r","e"," ","C","o","m","p","e","t","e","n","c","i","e","s">>,
      <<"E","d","u","c","a","t","i","o","n">>,
      <<"p","y">>,
      <<"7"," ","x">>,
      <<>>,
      <<"S","k","i","l","l","s",":">> }

InitSeg ==
    /\ kwQuery = << >>
    /\ kwResult = NotCalled
    /\ dirExists = FALSE
    /\ dirOrder = << >>
    /\ search = NoSearch
    /\ match = MatchIdle
    /\ scoring = ScoreIdle
    /\ run = RunIdle
    /\ seg \in { [SegIdle EXCEPT !.lines = ls, !.text = Join(ls, NL)] :
                    ls \in UNION { [1..m -> SegLines] : m \in 0..MaxLines } }
    /\ norm = NormIdle
    /\ comp = CompIdle
    /\ llm = LlmIdle

BuildSectionsCall ==
    /\ ~seg.called
    /\ \E built \in { BuildSections(seg.text) } :
          seg' = [seg EXCEPT !.called = TRUE, !.built = built]
    /\ UNCHANGED <<kwQuery, kwResult, dirExists, dirOrder, search, match, scoring, run, norm, comp, llm>>

NextSeg == BuildSectionsCall

SpecSeg == InitSeg /\ [][NextSeg]_vars

(***************************************************************************)
(* Specification of clean_text alone, applied to its own result            *)
(***************************************************************************)
NormAlphabet == { "a", " ", "\t", "\r", "\n" }

InitNorm ==
    /\ kwQuery = << >>
    /\ kwResult = NotCalled
    /\ dirExists = FALSE
    /\ dirOrder = << >>
    /\ search = NoSearch
    /\ match = MatchIdle
    /\ scoring = ScoreIdle
    /\ run = RunIdle
    /\ seg = SegIdle
    /\ norm \in { [NormIdle EXCEPT !.text = t] : t \in StrUpTo(NormAlphabet, MaxTextLen) }
    /\ comp = CompIdle
    /\ llm = LlmIdle

\* clean_text(text) first, then clean_text of what the last call returned
CleanTextCall ==
    /\ Len(norm.outs) < MaxApply
    /\ \E arg \in { IF norm.outs = << >> THEN norm.text
                    ELSE norm.outs[Len(norm.outs)] } :
          norm' = [norm EXCEPT !.outs = Append(@, CleanText(arg))]
    /\ UNCHANGED <<kwQuery, kwResult, dirExists, dirOrder, search, match, scoring, run, seg, comp, llm>>

NextNorm == CleanTextCall

SpecNorm == InitNorm /\ [][NextNorm]_vars

(***************************************************************************)
(* Specification of the two composers on one record                        *)
(***************************************************************************)
MaxEntries == 2       \* entries of experience, and of education, in a record

\* the entries the records are made of: objects and plain strings
ExpEntries ==
    { ExpDict(<<"d","e","v">>, <<"x">>, << >>, << >>),
      ExpDict(<<"q","a">>, << >>, <<"9","9">>, << <<"p","y">>, <<"g","o">> >>),
      ExpStr(<<"o","p","s">>) }
EduEntries ==
    { EduDict(<<"b","s","c">>, <<"c","s">>, <<"u">>),
      EduStr(<<"m","b","a">>) }

CompRecords ==
    { Sections(summary, experience, education, skills, << >>) :
        summary \in { << >>, <<"s">> },
        experience \in UNION { [1..m -> ExpEntries] : m \in 0..MaxEntries },
        education \in UNION { [1..m -> EduEntries] : m \in 0..MaxEntries },
        skills \in { << >>, << <<"P","y">> >> } }

InitComp ==
    /\ kwQuery = << >>
    /\ kwResult = NotCalled
    /\ dirExists = FALSE
    /\ dirOrder = << >>
    /\ search = NoSearch
    /\ match = MatchIdle
    /\ scoring = ScoreIdle
    /\ run = RunIdle
    /\ seg = SegIdle
    /\ norm = NormIdle
    /\ comp \in { [CompIdle EXCEPT !.sections = s] : s \in CompRecords }
    /\ llm = LlmIdle

\* build_resume_text(sections) of query_resumes.py and of match_resumes.py
BuildResumeTextCalls ==
    /\ ~comp.called
    /\ comp' = [comp EXCEPT !.called = TRUE,
                            !.retriever = QBuildResumeText(comp.sections),
                            !.matcher = MBuildResumeText(comp.sections)]
    /\ UNCHANGED <<kwQuery, kwResult, dirExists, dirOrder, search, match, scoring, run, seg, norm, llm>>

NextComp == BuildResumeTextCalls

SpecComp == InitComp /\ [][NextComp]_vars

(***************************************************************************)
(* Specification of the segmenter: process_all_txt runs, iteration by      *)
(* iteration, and process_single_resume calls between them                 *)
(***************************************************************************)
NumDocs == 2          \* documents INPUT_DIR and OUTPUT_DIR may hold
MaxRuns == 2          \* process_all_txt runs
MaxSingles == 1       \* process_single_resume calls

Docs == 1..NumDocs

\* the values the collaborator's JSON answers parse to
EmptySummary ==
    Parsed("object",
           [k \in { "summary", "skills" } |->
               IF k = "summary" THEN JStr("") ELSE JList(1, "Python")], TRUE)
FullSections ==
    Parsed("object",
           [k \in SectionKeys |->
               CASE k = "summary" -> JStr("a summary")
                 [] k = "experience" -> JList(1, "an entry")
                 [] k = "skills" -> JList(2, "a skill")
                 [] OTHER -> JList(0, "")], TRUE)
ListValue == Parsed("list", NoSections, TRUE)
Unwritable == Parsed("object", [k \in { "skills" } |-> JList(1, "Py\\ud800thon")], FALSE)

\* what the collaborator does at a call
LlmResponses ==
    { LlmError(DailyLimitError), LlmError(MinuteLimitError), LlmError(ConnectionError),
      LlmBlank, LlmMalformed(0), LlmMalformed(429),
      LlmJson("tagged", FullSections),
      LlmJson("none", EmptySummary), LlmJson("json", FullSections),
      LlmJson("none", ListValue), LlmJson("none", Unwritable) }

\* what it does at the calls of one section_with_llm: nothing new after
\* the call that returns
ListsOver(responses) ==
    { rs \in [1..SectionRetries -> responses] :
        \A a \in 2..SectionRetries :
           ~LlmAttempt(rs[a - 1]).raised => rs[a] = rs[a - 1] }
LlmResponseLists == ListsOver(LlmResponses)

\* the fewer things it does during a bulk run
BatchResponses ==
    { LlmError(DailyLimitError), LlmMalformed(429),
      LlmJson("none", EmptySummary), LlmJson("none", Unwritable) }
BatchResponseLists == ListsOver(BatchResponses)

\* the listings of INPUT_DIR: documents in any order
InputListings ==
    { s \in UNION { [1..m -> Docs] : m \in 0..NumDocs } :
        \A i, j \in 1..Len(s) : i # j => s[i] # s[j] }

InitLlm ==
    /\ kwQuery = << >>
    /\ kwResult = NotCalled
    /\ dirExists = FALSE
    /\ dirOrder = << >>
    /\ search = NoSearch
    /\ match = MatchIdle
    /\ scoring = ScoreIdle
    /\ run = RunIdle
    /\ seg = SegIdle
    /\ norm = NormIdle
    /\ comp = CompIdle
    /\ llm \in { [LlmIdle EXCEPT !.input = files,
                                 !.output = [d \in done |-> Record(d, OldSections)]] :
                    files \in InputListings, done \in SUBSET Docs }

\* process_all_txt() starts
ProcessAllStart ==
    /\ llm.pc = "idle"
    /\ llm.runs < MaxRuns
    /\ llm' = ProcessAllBegin(llm)
    /\ UNCHANGED <<kwQuery, kwResult, dirExists, dirOrder, search, match, scoring, run, seg, norm, comp>>

\* one iteration of its loop
ProcessAllStep ==
    /\ llm.pc = "batch"
    /\ llm.i <= Len(llm.pending)
    /\ \E rs \in BatchResponseLists : llm' = ProcessAllIteration(llm, rs)
    /\ UNCHANGED <<kwQuery, kwResult, dirExists, dirOrder, search, match, scoring, run, seg, norm, comp>>

\* line 244: the loop is over
ProcessAllEnd ==
    /\ llm.pc = "batch"
    /\ llm.i > Len(llm.pending)
    /\ llm' = [llm EXCEPT !.pc = "idle"]
    /\ UNCHANGED <<kwQuery, kwResult, dirExists, dirOrder, search, match, scoring, run, seg, norm, comp>>

\* process_single_resume(pdf_path) on an upload, outside a bulk run
ProcessSingleCall ==
    /\ llm.pc = "idle"
    /\ llm.singles < MaxSingles
    /\ \E blank \in BOOLEAN :
          \E rs \in (IF blank THEN { [a \in 1..SectionRetries |-> LlmBlank] }
                     ELSE BatchResponseLists) :
             llm' = ProcessSingleResume(llm, blank, rs)
    /\ UNCHANGED <<kwQuery, kwResult, dirExists, dirOrder, search, match, scoring, run, seg, norm, comp>>

NextLlm == ProcessAllStart \/ ProcessAllStep \/ ProcessAllEnd \/ ProcessSingleCall

SpecLlm == InitLlm /\ [][NextLlm]_vars

(***************************************************************************)
(* Specification of one process_single_resume call, from each state of the *)
(* globals and for everything the collaborator may do                      *)
(***************************************************************************)
Globals ==
    { Global("groq", GROQ_PRIMARY), Global("groq", GROQ_FALLBACK),
      Global("ollama", OLLAMA_MODEL) }

InitSection ==
    /\ kwQuery = << >>
    /\ kwResult = NotCalled
    /\ dirExists = FALSE
    /\ dirOrder = << >>
    /\ search = NoSearch
    /\ match = MatchIdle
    /\ scoring = ScoreIdle
    /\ run = RunIdle
    /\ seg = SegIdle
    /\ norm = NormIdle
    /\ comp = CompIdle
    /\ llm \in { [LlmIdle EXCEPT !.global = g] : g \in Globals }

ProcessSingleAny ==
    /\ llm.single.kind = "none"
    /\ \E blank \in BOOLEAN :
          \E rs \in (IF blank THEN { [a \in 1..SectionRetries |-> LlmBlank] }
                     ELSE LlmResponseLists) :
             llm' = ProcessSingleResume(llm, blank, rs)
    /\ UNCHANGED <<kwQuery, kwResult, dirExists, dirOrder, search, match, scoring, run, seg, norm, comp>>

NextSection == ProcessSingleAny

SpecSection == InitSection /\ [][NextSection]_vars

(***************************************************************************)
(* Properties of the retriever                                             *)
(***************************************************************************)
\* the record files the call can read
Readable == { id \in RecordIds :
                dirExists /\ FileOf(id).ok /\ \E i \in 1..Len(dirOrder) : dirOrder[i] = id }

InSeq(x, s) == \E i \in 1..Len(s) : s[i] = x
Ids(ms) == { ms[i].id : i \in 1..Len(ms) }
NoDuplicates(s) == \A i, j \in 1..Len(s) : i # j => s[i] # s[j]

\* a keyword is contained in a skill or a skill in the keyword, ignoring case
SkillHit(kw, id) ==
    \E i \in 1..Len(FileOf(id).sections.skills) :
        LET skill == Lower(FileOf(id).sections.skills[i])
        IN  Contains(skill, kw) \/ Contains(kw, skill)

\* a keyword occurs in the composed text, ignoring case
TextHit(kw, id) == Contains(Lower(QBuildResumeText(FileOf(id).sections)), kw)

\* the keywords of the call that hit record id, in keyword order
HitsOf(id) == SelectSeq(search.keywords, LAMBDA kw : SkillHit(kw, id) \/ TextHit(kw, id))

\* the records some keyword of the call hits
ExactIds == { id \in Readable : HitsOf(id) # << >> }

\* the neighbours the index gave the call
Answer ==
    IF search.queries # << >> /\ ~search.store.raises
    THEN SubSeq(search.store.ranking, 1,
                IF Len(search.store.ranking) < search.queries[1].k
                THEN Len(search.store.ranking) ELSE search.queries[1].k)
    ELSE << >>

\* C1: no id occurs twice in the list search_resumes returns, and a record
\* the exact pass found is never returned as a semantic match, whatever the
\* index answers.
C1_ResultIdsDistinct ==
    search.called =>
        /\ NoDuplicates([i \in 1..Len(search.result) |-> search.result[i].id])
        /\ \A i \in 1..Len(search.result) :
              search.result[i].match_type = "semantic"
                  => search.result[i].id \notin ExactIds

\* C1 witness: the index returns twice an id the exact pass found, and
\* the result holds that id as an exact match.
C1_Witness ==
    /\ search.called
    /\ \E i, j \in 1..Len(Answer) :
          /\ i < j
          /\ Answer[i].id = Answer[j].id
          /\ Answer[i].id \in ExactIds
          /\ \E m \in 1..Len(search.result) :
                search.result[m].id = Answer[i].id
                /\ search.result[m].match_type = "exact"

\* the score the exact pass gives record id
ScoreOf(id) == Frac(Len(HitsOf(id)), Len(search.keywords))

IsExactResult(id) ==
    \E m \in 1..Len(search.result) :
        search.result[m].id = id /\ search.result[m].match_type = "exact"

\* the records whose skills list matches a keyword of the call
SkillIds == { id \in Readable : \E i \in 1..Len(search.keywords) :
                                    SkillHit(search.keywords[i], id) }

\* C2 as claimed: for k >= 1 every record whose skills list matches a
\* keyword of the query is in the result as an exact match.
C2_SkillMatchReturned ==
    (search.called /\ search.n_results >= 1) =>
        \A id \in SkillIds : IsExactResult(id)

\* C2 amended: for k >= 1 a record whose skills list matches a keyword of
\* the query is in the result as an exact match, unless the result is k
\* exact matches that each score at least as high as that record.
C2_SkillMatchReturnedOrOutranked ==
    (search.called /\ search.n_results >= 1) =>
        \A id \in SkillIds :
            \/ IsExactResult(id)
            \/ /\ Len(search.result) = search.n_results
               /\ \A m \in 1..Len(search.result) :
                     /\ search.result[m].match_type = "exact"
                     /\ FracLeq(ScoreOf(id), search.result[m].score)

\* C2 witness: k >= 1, a record whose skills list matches a keyword is
\* returned as an exact match, and the result is full.
C2_Witness ==
    /\ search.called
    /\ search.n_results >= 1
    /\ Len(search.result) = search.n_results
    /\ \E id \in SkillIds : IsExactResult(id)

\* C3: search_resumes returns at most k matches.
C3_AtMostK ==
    search.called => Len(search.result) <= search.n_results

\* C3 witness: the exact matches and the unseen neighbours together are
\* more than k >= 1, and exactly k are returned.
C3_Witness ==
    /\ search.called
    /\ search.n_results >= 1
    /\ Len(search.result) = search.n_results
    /\ Cardinality(ExactIds \cup { Answer[i].id : i \in 1..Len(Answer) })
          > search.n_results
    /\ Answer # << >>

\* C4: in the result every exact match precedes every semantic match, and
\* inside each group the scores do not increase.
C4_ExactFirstThenScore ==
    search.called =>
        \A i, j \in 1..Len(search.result) :
            i < j =>
                LET a == search.result[i]
                    b == search.result[j]
                IN  /\ ~(a.match_type = "semantic" /\ b.match_type = "exact")
                    /\ a.match_type = b.match_type => FracLeq(b.score, a.score)

\* C4 witness: an exact match of ratio 1/2 is returned before a semantic
\* match of similarity 1.
C4_Witness ==
    /\ search.called
    /\ \E i, j \in 1..Len(search.result) :
          /\ i < j
          /\ search.result[i].match_type = "exact"
          /\ search.result[j].match_type = "semantic"
          /\ FracLess(search.result[i].score, search.result[j].score)

Min(a, b) == IF a < b THEN a ELSE b

\* the ids among the index's answer that the exact pass did not return
UnseenAnswerIds == { Answer[i].id : i \in 1..Len(Answer) } \ Ids(search.exact_matches)

\* the part of C5 that holds of every call: the one query carries the raw
\* query and asks for 3k neighbours; semantic matches are appended until
\* the list holds k or the answer is exhausted; no keywords, no exact pass
C5_Common ==
    /\ Len(search.queries) <= 1
    /\ \A i \in 1..Len(search.queries) :
          /\ search.queries[i].query = search.query
          /\ search.queries[i].k = 3 * search.n_results
    /\ Len(search.queries) = 1 =>
          Len(search.all_matches) =
              Min(search.n_results,
                  Len(search.exact_matches) + Cardinality(UnseenAnswerIds))
    /\ Len(search.queries) = 0 => search.all_matches = search.exact_matches
    /\ search.keywords = << >> => ~search.exact_pass

\* C5 as claimed: search_resumes queries the vector index if and only if
\* the exact pass produced fewer than k matches, then exactly once, with
\* the raw query and 3k, appending until the list holds k; a query without
\* keywords runs no exact pass and goes to the semantic pass.
C5_QueriedIffFewerThanK ==
    search.called =>
        /\ (Len(search.queries) = 1) <=> (Len(search.exact_matches) < search.n_results)
        /\ C5_Common

\* C5 amended: search_resumes enters the semantic pass (calls
\* get_vector_store, once) if and only if the exact pass produced fewer
\* than k matches; it then queries the index exactly once if the store
\* exists, and not at all if the store is missing; the rest as claimed.
C5_AttemptedIffFewerThanK ==
    search.called =>
        /\ search.opened <= 1
        /\ (search.opened = 1) <=> (Len(search.exact_matches) < search.n_results)
        /\ (Len(search.queries) = 1) <=> (search.opened = 1 /\ search.store.exists)
        /\ C5_Common
        /\ (search.keywords = << >> /\ search.n_results >= 1) => search.opened = 1

\* C5 witness: a query of stop words only runs no exact pass, the index
\* is queried once and answers more distinct ids than k, and the semantic
\* matches appended are k.
C5_Witness ==
    /\ search.called
    /\ search.query # << >>
    /\ search.keywords = << >>
    /\ Len(search.queries) = 1
    /\ Cardinality(UnseenAnswerIds) > search.n_results
    /\ Len(search.all_matches) = search.n_results

\* get_vector_store raises, or the similarity query raises
IndexUnavailable == ~search.store.exists \/ search.store.raises

\* C6: with the vector index unavailable search_resumes does not raise and
\* returns exactly the exact matches it found, the empty list when the
\* query has no keyword.
C6_DegradesToExact ==
    (search.called /\ IndexUnavailable) =>
        /\ ~search.raised
        /\ search.result = search.exact_matches
        /\ search.opened = 1 => Ids(search.result) = ExactIds
        /\ \A i \in 1..Len(search.result) : search.result[i].match_type = "exact"
        /\ search.keywords = << >> => search.result = << >>

\* C6 witness: the similarity query raises and the exact matches found are
\* returned.
C6_Witness ==
    /\ search.called
    /\ search.store.raises
    /\ Len(search.queries) = 1
    /\ search.result # << >>

\* C8: the exact pass returns only records that a keyword hits (in a
\* skill, either way round, or in the composed text), each with the
\* keywords that hit it, a score of matched / total in (0, 1]; a record
\* that is hit is returned unless k records that score no lower are.
C8_ExactPass ==
    (search.called /\ search.exact_pass) =>
        LET em == search.exact_matches
        IN  /\ Len(em) <= search.n_results
            /\ NoDuplicates([i \in 1..Len(em) |-> em[i].id])
            /\ \A i \in 1..Len(em) :
                  /\ em[i].id \in ExactIds
                  /\ em[i].match_type = "exact"
                  /\ em[i].matched_keywords = HitsOf(em[i].id)
                  /\ em[i].matched_keywords # << >>
                  /\ em[i].score[1] * Len(search.keywords)
                        = Len(HitsOf(em[i].id)) * em[i].score[2]
                  /\ FracLess(Frac(0, 1), em[i].score)
                  /\ FracLeq(em[i].score, Frac(1, 1))
            /\ \A id \in ExactIds :
                  \/ id \in Ids(em)
                  \/ /\ Len(em) = search.n_results
                     /\ \A i \in 1..Len(em) : FracLeq(ScoreOf(id), em[i].score)

\* C8 witness: more than k >= 1 records are hit, and a record dropped
\* scores lower than a record kept.
C8_Witness ==
    /\ search.called
    /\ search.exact_pass
    /\ search.n_results >= 1
    /\ Cardinality(ExactIds) > search.n_results
    /\ \E id \in ExactIds \ Ids(search.exact_matches) :
          \E i \in 1..Len(search.exact_matches) :
              FracLess(ScoreOf(id), search.exact_matches[i].score)

(***************************************************************************)
(* Properties of extract_keywords                                          *)
(***************************************************************************)
\* the position of the first occurrence of x in s
FirstIndex(x, s) == CHOOSE i \in 1..Len(s) : s[i] = x /\ \A j \in 1..(i - 1) : s[j] # x

\* C7: extract_keywords returns an ordered set: no keyword occurs twice in
\* the list, and the keywords are in the order of their first occurrence
\* among the words of the query.
C7_KeywordsOrderedSet ==
    kwResult # NotCalled =>
        LET words == FindAll(Lower(kwQuery), 1)
        IN  /\ NoDuplicates(kwResult)
            /\ \A i \in 1..Len(kwResult) : InSeq(kwResult[i], words)
            /\ \A i, j \in 1..Len(kwResult) :
                  i < j => FirstIndex(kwResult[i], words) < FirstIndex(kwResult[j], words)

(***************************************************************************)
(* Properties of the matcher                                               *)
(***************************************************************************)
\* the position in the processing order of the result of candidate id
Processed(id) ==
    CHOOSE i \in 1..Len(match.results) : match.results[i].candidate_id = id

\* C9: match_top_candidates returns at most n results, the scores do not
\* increase along the list, and results of equal score keep the order in
\* which their candidates were processed.
C9_SortedStableAtMostN ==
    match.pc = "returned" =>
        /\ Len(match.returned) <= match.n_candidates
        /\ Len(match.returned) = Len(match.results)
        /\ \A i \in 1..Len(match.returned) : InSeq(match.returned[i], match.results)
        /\ \A i, j \in 1..Len(match.returned) :
              i < j =>
                  LET a == match.returned[i]
                      b == match.returned[j]
                  IN  \/ a.score.val > b.score.val
                      \/ /\ a.score.val = b.score.val
                         /\ Processed(a.candidate_id) < Processed(b.candidate_id)

\* C9 witness: n results are returned for n = 2, the second scored higher
\* than the first, so the sort exchanged them.
C9_Witness ==
    /\ match.pc = "returned"
    /\ match.n_candidates = 2
    /\ Len(match.returned) = 2
    /\ match.results[1].score.val < match.results[2].score.val

\* C10: when the retriever call fails, the files selected for scoring are
\* the first n of the corpus in sorted file name order: the n smallest
\* ids of the directory, ascending.
C10_FallbackFirstN ==
    (match.pc # "idle" /\ match.retriever_failed) =>
        LET jf == match.json_files
        IN  /\ Len(jf) = Min(match.n_candidates, Len(dirOrder))
            /\ \A i \in 1..Len(jf) : InSeq(jf[i], dirOrder)
            /\ \A i, j \in 1..Len(jf) : i < j => jf[i] < jf[j]
            /\ \A i \in 1..Len(jf), k \in 1..Len(dirOrder) :
                  InSeq(dirOrder[k], jf) \/ jf[i] < dirOrder[k]

\* C10 witness: the retriever fails, the directory lists three records in
\* another order than the sorted one, n = 2, and records 1 and 2 are
\* selected.
C10_Witness ==
    /\ match.pc = "loop"
    /\ match.retriever_failed
    /\ match.n_candidates = 2
    /\ Len(dirOrder) = 3
    /\ dirOrder[1] = 3
    /\ match.json_files = <<1, 2>>

(***************************************************************************)
(* Properties of score_resume and of a matching run                        *)
(***************************************************************************)
CallsIn(events) == SelectSeq(events, LAMBDA e : e.ev = "call")
CallbacksIn(events) == SelectSeq(events, LAMBDA e : e.ev = "callback")

\* the ids of the candidates for which the collaborator was called
Attempted == { run.events[p].id : p \in { q \in 1..Len(run.events) :
                                            run.events[q].ev = "call" } }

\* every answer of the collaborator so far was malformed JSON
AlwaysMalformed ==
    \A p \in 1..Len(run.events) :
       run.events[p].ev = "call" => run.events[p].what = "JSONDecodeError"

ResultsOf(id) == SelectSeq(run.results, LAMBDA r : r.candidate_id = id)

\* C11: while the collaborator answers malformed JSON only,
\* match_top_candidates holds exactly one result for every candidate it
\* tried to score, each with score 0 and a non-empty gaps list; it does not
\* raise once the corpus directory exists, and returns those results.
C11_MalformedGivesPlaceholders ==
    (run.mode = "top" /\ run.pc # "idle" /\ dirExists /\ AlwaysMalformed) =>
        /\ run.pc # "raised"
        /\ \A id \in Attempted : Len(ResultsOf(id)) = 1
        /\ \A p \in 1..Len(run.results) :
              /\ run.results[p].candidate_id \in Attempted
              /\ run.results[p].score.num
              /\ run.results[p].score.val = 0
              /\ run.results[p].gaps.t = "list"
              /\ run.results[p].gaps.n > 0
        /\ run.pc = "returned" =>
              /\ Len(run.returned) = Cardinality(Attempted)
              /\ \A p \in 1..Len(run.returned) : InSeq(run.returned[p], run.results)

\* C11 witness: match_top_candidates returned two results after four
\* malformed answers, two for each candidate.
C11_Witness ==
    /\ run.mode = "top"
    /\ run.pc = "returned"
    /\ AlwaysMalformed
    /\ Len(CallsIn(run.events)) = 4
    /\ Len(run.returned) = 2

\* the response that the last call of score_resume got
LastResponse == scoring.responses[Len(CallsIn(scoring.events))]

\* the answer to the call at position p of the events parsed as JSON
ParsedAsJson(e) == e.what \in { "returned", "TypeError" }

\* between two calls that follow each other lies a sleep
SleepBetweenCalls(events) ==
    \A p, q \in 1..Len(events) :
       (p < q /\ events[p].ev = "call" /\ events[q].ev = "call") =>
           \E s \in (p + 1)..(q - 1) : events[s].ev = "sleep" /\ events[s].n > 0

\* when every attempt got malformed JSON the parse placeholder is returned
ParsePlaceholderReturned ==
    (\A p \in 1..Len(scoring.events) :
        scoring.events[p].ev = "call" => scoring.events[p].what = "JSONDecodeError") =>
        /\ scoring.result.kind = "dict"
        /\ scoring.result.fields["score"] = JInt(0)
        /\ scoring.result.fields["gaps"] = JList(1, "Could not analyze resume")
        /\ scoring.result.fields["reasoning"].t = "JSON parsing error: {e}"
        /\ scoring.result.fields["reasoning"].n > 0
        /\ scoring.result.fields["reasoning"].n =
              Min(Unfence(LastResponse).err, ParseErrShown)

C12_Common ==
    /\ Len(CallsIn(scoring.events)) >= 1
    /\ Len(CallsIn(scoring.events)) <= 2
    /\ SleepBetweenCalls(scoring.events)
    /\ ParsePlaceholderReturned

\* C12 as claimed: at most 2 calls, a backoff between a failed attempt and
\* the next, the parse placeholder when every attempt is unparseable, and
\* no call after the first response that parses as JSON.
C12_NoCallAfterJson ==
    scoring.called =>
        /\ C12_Common
        /\ \A p, q \in 1..Len(scoring.events) :
              (p < q /\ scoring.events[p].ev = "call" /\ scoring.events[q].ev = "call")
                  => ~ParsedAsJson(scoring.events[p])

\* C12: score_resume calls the collaborator at most 2 times, makes no call
\* after the first response from which it returns (one that parses as a JSON
\* object, or a list or string that holds all five keys), sleeps between a
\* failed attempt and the next, retries a response that parses as JSON but
\* is no such value, and returns the parse placeholder (score 0, gaps
\* ['Could not analyze resume'], reasoning with the first 50 characters of
\* the parse error) when every attempt got unparseable text.
C12_NoCallAfterObject ==
    scoring.called =>
        /\ C12_Common
        /\ \A p, q \in 1..Len(scoring.events) :
              (p < q /\ scoring.events[p].ev = "call" /\ scoring.events[q].ev = "call")
                  => scoring.events[p].what # "returned"
        /\ \A p \in 1..Len(scoring.events) :
              (scoring.events[p].ev = "call" /\ scoring.events[p].what = "TypeError"
               /\ p < Len(scoring.events))
                  => scoring.events[p + 1] = SleepEvent(ErrorBackoff)

\* C12 witness: two malformed answers, a sleep between the two calls, the
\* placeholder returned with a parse error cut to 50 characters.
C12_Witness ==
    /\ scoring.called
    /\ Len(scoring.events) = 3
    /\ scoring.events[1].what = "JSONDecodeError"
    /\ scoring.events[2] = SleepEvent(JsonBackoff)
    /\ scoring.events[3].what = "JSONDecodeError"
    /\ Unfence(LastResponse).err > ParseErrShown
    /\ scoring.result.fields["reasoning"].n = ParseErrShown

\* C13: every result a matching run returns has an integer score between 0
\* and 100.
C13_ScoreInRange ==
    run.pc = "returned" =>
        \A p \in 1..Len(run.returned) :
           /\ run.returned[p].score.num
           /\ run.returned[p].score.val >= 0
           /\ run.returned[p].score.val <= 100

\* C14: match_top_candidates raises only for a missing corpus directory:
\* no failure of one candidate makes it raise, and it returns every
\* result it has appended.
C14_CandidateFailureNeverAborts ==
    (run.mode = "top" /\ dirExists) =>
        /\ run.pc # "raised"
        /\ run.pc = "returned" => Len(run.returned) = Len(run.results)

\* C15: between any two consecutive calls of the scoring collaborator in a
\* run a sleep elapses.
C15_DelayBetweenCalls == SleepBetweenCalls(run.events)

\* C16: when the loop of a run is over, the progress callback has been
\* invoked once for each selected candidate, with current = 1, 2, ..., total
\* in this order and total the number of selected candidates.
C16_CallbackOncePerCandidate ==
    (run.callback # "none" /\ run.pc \in { "loop", "returned" } /\ run.i > run.total) =>
        LET cbs == CallbacksIn(run.events)
        IN  /\ Len(cbs) = run.total
            /\ \A p \in 1..Len(cbs) : cbs[p].n = p /\ cbs[p].m = run.total

\* C17: a run on a missing or empty corpus directory raises.
C17_EmptyCorpusRaises ==
    (run.pc # "idle" /\ (~dirExists \/ dirOrder = << >>)) => run.pc = "raised"

\* C18: when score_resume returns from a response that parses as a JSON
\* object, the result is a dict with all five keys; a key the response
\* has keeps its value, a missing score is 50, a missing reasoning the fixed
\* text, missing strengths and gaps the empty list, a missing summary
\* 'Match score: {score}/100' of the score of the result.
C18_MissingKeysDefaulted ==
    (/\ scoring.called
     /\ LastResponse.kind = "text"
     /\ LastResponse.fence \in { "none", "bare", "json" }
     /\ LastResponse.body.type = "object") =>
        LET given == LastResponse.body.fields
            got == scoring.result.fields
        IN  /\ scoring.result.kind = "dict"
            /\ DOMAIN got = Keys
            /\ \A k \in DOMAIN given : got[k] = given[k]
            /\ "score" \notin DOMAIN given => got["score"] = JInt(50)
            /\ "reasoning" \notin DOMAIN given =>
                  got["reasoning"] = JStr("Unable to generate detailed reasoning.")
            /\ "strengths" \notin DOMAIN given => got["strengths"] = JList(0, "")
            /\ "gaps" \notin DOMAIN given => got["gaps"] = JList(0, "")
            /\ "summary" \notin DOMAIN given =>
                  /\ got["summary"].t = "Match score: {score}/100"
                  /\ got["summary"].n = got["score"].n
                  /\ got["summary"].u = got["score"].t

\* C18 witness: the second attempt got an object with a null score and no
\* summary; the result has the null score and a summary built from it.
C18_Witness ==
    /\ scoring.called
    /\ Len(CallsIn(scoring.events)) = 2
    /\ LastResponse.kind = "text"
    /\ LastResponse.body.type = "object"
    /\ DOMAIN LastResponse.body.fields = { "score", "gaps" }
    /\ scoring.result.fields["score"] = JNull
    /\ scoring.result.fields["summary"] = SummaryOf(JNull)
    /\ scoring.result.fields["strengths"] = JList(0, "")

(***************************************************************************)
(* Properties of build_sections                                            *)
(***************************************************************************)
\* the section of which the line, lower-cased and trimmed, is a synonym
HeaderSections(line) ==
    { k \in NamedSections :
        \E q \in 1..Len(SECTION_KEYWORDS[k]) : Normalize(line) = SECTION_KEYWORDS[k][q] }

IsHeader(line) == HeaderSections(line) # {}

\* the bucket open at line i: the section of the last header before it
OpenAt(i) ==
    LET before == { j \in 1..(i - 1) : IsHeader(seg.lines[j]) }
    IN  IF before = {} THEN "other"
        ELSE CHOOSE k \in NamedSections :
                k \in HeaderSections(seg.lines[CHOOSE j \in before : \A h \in before : h <= j])

\* the positions of the lines that belong in bucket k
Members(k) ==
    { i \in 1..Len(seg.lines) :
        /\ Strip(seg.lines[i]) # << >>
        /\ ~IsHeader(seg.lines[i])
        /\ OpenAt(i) = k }

\* C19: after the line pass every bucket holds, in input order, exactly the
\* non-blank lines that are no header and whose last preceding header is
\* the bucket's section ('other' when no header precedes); no header line
\* is in a bucket.
C19_LinePassBuckets ==
    seg.called =>
        \A k \in DOMAIN seg.built.buffer :
           LET bucket == seg.built.buffer[k]
           IN  /\ Len(bucket) = Cardinality(Members(k))
               /\ \A p \in 1..Len(bucket) :
                     /\ ~IsHeader(bucket[p])
                     /\ \E i \in Members(k) :
                           /\ bucket[p] = seg.lines[i]
                           /\ Cardinality({ j \in Members(k) : j < i }) = p - 1

\* C19 witness: a 'Skills' header and two lines that are no header: skills
\* is those two lines; and a line that only contains the synonym stays text.
C19_Witness ==
    /\ seg.called
    /\ seg.lines = << <<"S","k","i","l","l","s">>,
                      <<"S","k","i","l","l","s",":"," ","p","y">>,
                      <<"7"," ","x">> >>
    /\ seg.built.buffer["skills"] = << <<"S","k","i","l","l","s",":"," ","p","y">>,
                                       <<"7"," ","x">> >>
    /\ seg.built.buffer["other"] = << >>
    /\ DOMAIN seg.built.output = { "skills" }

\* what the fallback pattern of section k finds in the text
Found(k) == RegexSearch(seg.text, REGEX_PATTERNS[k])

\* the fallback leaves alone what the line pass filled, and 'other'
C20_FilledKept ==
    /\ seg.built.filled["other"] = seg.built.joined["other"]
    /\ \A k \in NamedSections :
          seg.built.joined[k] # << >> =>
              /\ seg.built.filled[k] = seg.built.joined[k]
              /\ k \in DOMAIN seg.built.output
              /\ seg.built.output[k] = seg.built.joined[k]

\* C20 as claimed: a named section the line pass left empty and whose
\* fallback pattern matches is in the output, non-empty, equal to the
\* trimmed second group.
C20_FallbackPresent ==
    seg.called =>
        /\ C20_FilledKept
        /\ \A k \in NamedSections :
              (seg.built.joined[k] = << >> /\ Found(k).matched) =>
                  /\ k \in DOMAIN seg.built.output
                  /\ seg.built.output[k] # << >>
                  /\ seg.built.output[k] = Strip(Found(k).group2)

\* C20: a named section the line pass left empty and whose fallback
\* pattern matches gets the trimmed second group as content; it is in the
\* output exactly when that content is not empty; a named section without
\* content and without match is not in the output; what the line pass
\* filled, and 'other', are not changed.
C20_FallbackFillsEmpty ==
    seg.called =>
        /\ C20_FilledKept
        /\ \A k \in NamedSections :
              seg.built.joined[k] = << >> =>
                  LET content == IF Found(k).matched THEN Strip(Found(k).group2)
                                 ELSE << >>
                  IN  /\ seg.built.filled[k] = content
                      /\ k \in DOMAIN seg.built.output <=> content # << >>
                      /\ k \in DOMAIN seg.built.output => seg.built.output[k] = content

\* C20 witness: 'Core Competencies' is no header of the line pass, the
\* fallback of skills matches it and takes the next line.
C20_Witness ==
    /\ seg.called
    /\ seg.lines = << <<"C","o","r","e"," ","C","o","m","p","e","t","e","n","c","i","e","s">>,
                      <<"p","y">> >>
    /\ seg.built.joined["skills"] = << >>
    /\ Found("skills").matched
    /\ seg.built.output["skills"] = <<"p","y">>

(***************************************************************************)
(* C21: the output of build_sections                                       *)
(***************************************************************************)
AllSections == { SectionNames[p] : p \in 1..Len(SectionNames) }

\* C21: the mapping build_sections returns has keys only among summary,
\* experience, education, skills, certifications and other; no value is
\* the empty string; a section is in it exactly when its final content
\* (after the line pass and the fallback) is not empty, with that content;
\* 'other' is kept when not empty.
C21_OnlyNonEmptySections ==
    seg.called =>
        /\ DOMAIN seg.built.output \subseteq AllSections
        /\ \A k \in DOMAIN seg.built.output : seg.built.output[k] # << >>
        /\ \A k \in AllSections :
              /\ k \in DOMAIN seg.built.output <=> seg.built.filled[k] # << >>
              /\ k \in DOMAIN seg.built.output =>
                     seg.built.output[k] = seg.built.filled[k]

\* C21 witness: a text with a line outside every section and a header
\* nothing follows: 'other' is the only key returned.
C21_Witness ==
    /\ seg.called
    /\ seg.lines = << <<"7"," ","x">>, <<"S","k","i","l","l","s">> >>
    /\ seg.built.filled["skills"] = << >>
    /\ DOMAIN seg.built.output = { "other" }
    /\ seg.built.output["other"] = <<"7"," ","x">>

(***************************************************************************)
(* C24: clean_text is idempotent                                           *)
(***************************************************************************)
\* what clean_text promises of a text: one kind of line break, single
\* spaces and no tab, at most two line breaks in a row, no white space at
\* either end
Normalized(t) ==
    /\ \A i \in 1..Len(t) : t[i] \notin { "\r", "\t" }
    /\ \A i \in 1..(Len(t) - 1) : ~(t[i] = " " /\ t[i + 1] = " ")
    /\ \A i \in 1..(Len(t) - 2) : ~(t[i] = "\n" /\ t[i + 1] = "\n" /\ t[i + 2] = "\n")
    /\ t # << >> => ~IsSpace(t[1]) /\ ~IsSpace(t[Len(t)])

\* C24: clean_text returns a normalized text for every text, and applying
\* it to its own result returns that result again:
\* clean_text(clean_text(t)) == clean_text(t).
C24_CleanTextIdempotent ==
    /\ \A i \in 1..Len(norm.outs) : Normalized(norm.outs[i])
    /\ \A i \in 2..Len(norm.outs) : norm.outs[i] = norm.outs[1]

\* C24 witness: "a \t\ra" has a run of blanks and a carriage return; the
\* first call changes it, the second call changes nothing.
C24_Witness ==
    /\ norm.text = <<"a"," ","\t","\r","a">>
    /\ Len(norm.outs) = 2
    /\ norm.outs[1] = <<"a"," ","\n","a">>
    /\ norm.outs[2] = norm.outs[1]

(***************************************************************************)
(* C23: the composers render every entry                                   *)
(***************************************************************************)
\* the lines of a composed text that render an entry: "- ..."
EntryLines(text) ==
    SelectSeq(SplitLines(text), LAMBDA l : StartsWith(l, <<"-"," ">>))

\* the entries of the record, experience first, in record order
Entries(sections) == sections.experience \o sections.education

\* text renders every entry of the record in order, a plain string as it is
RendersEveryEntry(text, sections) ==
    /\ Len(EntryLines(text)) = Len(Entries(sections))
    /\ \A i \in 1..Len(Entries(sections)) :
          ~Entries(sections)[i].isDict =>
              EntryLines(text)[i] = <<"-"," ">> \o Entries(sections)[i].text

\* C23: the composer of the retriever and the composer of the matcher each
\* render every entry of experience and education in record order, an
\* entry that is a plain string as it is; so both render the same entries.
C23_EveryEntryRendered ==
    comp.called =>
        /\ RendersEveryEntry(comp.retriever, comp.sections)
        /\ RendersEveryEntry(comp.matcher, comp.sections)
        /\ Len(EntryLines(comp.retriever)) = Len(EntryLines(comp.matcher))

\* the part of C23 that is about the retriever's composer alone
C23_RetrieverRendersEveryEntry ==
    comp.called => RendersEveryEntry(comp.retriever, comp.sections)

(***************************************************************************)
(* C29: the candidates match_top_candidates selects                        *)
(***************************************************************************)
\* the first n records of the directory in sorted order
FirstRecords(jf, n) ==
    /\ Len(jf) = Min(n, Len(dirOrder))
    /\ \A i \in 1..Len(jf) : InSeq(jf[i], dirOrder)
    /\ \A i, j \in 1..Len(jf) : i < j => jf[i] < jf[j]
    /\ \A i \in 1..Len(jf), k \in 1..Len(dirOrder) :
          InSeq(dirOrder[k], jf) \/ jf[i] < dirOrder[k]

C29_EmptyListCase ==
    /\ match.pc = "loop"
    /\ ~match.retriever_failed
    /\ match.candidate_ids = << >>
    /\ match.n_candidates = 2
    /\ Len(dirOrder) = 3
    /\ dirOrder[1] = 3
    /\ match.json_files = <<1, 2>>

(***************************************************************************)
(* C30: the candidates a matching run skips                                *)
(***************************************************************************)
\* the selected candidates, and those of them that have no text or whose
\* record cannot be read
Selected == { run.json_files[i] : i \in 1..Len(run.json_files) }
SkippedCandidates ==
    { id \in Selected :
        \/ ~FileOf(id).ok
        \/ IsBlank(MBuildResumeText(FileOf(id).sections)) }

PacingAt(p) == run.events[p].ev = "sleep" /\ run.events[p].n = PacingDelay

\* a skipped candidate leaves nothing behind: no call, no result, no
\* callback, and every pacing delay comes right after the call or the
\* callback of a candidate that was not skipped
SkipLeavesNoTrace ==
    /\ \A id \in SkippedCandidates :
          /\ \A p \in 1..Len(run.events) : run.events[p].id # id
          /\ ResultsOf(id) = << >>
    /\ \A p \in 1..Len(run.events) :
          PacingAt(p) =>
              /\ p > 1
              /\ run.events[p - 1].ev \in { "call", "callback" }
              /\ run.events[p - 1].id \in Selected \ SkippedCandidates

\* C30: a selected candidate whose composed text is empty, or whose record
\* cannot be read, is skipped silently: no scoring call is made for it, no
\* MatchResult is produced for it, no progress callback and no pacing
\* delay follow it; and the returned list has exactly one MatchResult for
\* each remaining selected candidate, each with a distinct candidate_id.
C30_SkippedSilently ==
    /\ run.pc \in { "loop", "returned" } => SkipLeavesNoTrace
    /\ run.pc = "returned" =>
          /\ \A id \in Selected \ SkippedCandidates :
                Cardinality({ i \in 1..Len(run.returned) :
                                 run.returned[i].candidate_id = id }) = 1
          /\ Len(run.returned) = Cardinality(Selected \ SkippedCandidates)

\* the part of C30 that is about the skipped candidates alone
C30_SkipPart ==
    run.pc \in { "loop", "returned" } => SkipLeavesNoTrace

\* a run that skipped a candidate and returned
C30_SkipReached ==
    /\ run.pc = "returned"
    /\ SkippedCandidates # {}
    /\ Len(run.returned) = 1
    /\ run.callback = "ok"
    /\ \E p \in 1..Len(run.events) : PacingAt(p)

(***************************************************************************)
(* Properties of the segmenter                                             *)
(***************************************************************************)
\* a section content that is empty: "" or []
EmptyContent(v) == (v.t = "str" /\ v.u = "") \/ (v.t = "list" /\ v.n = 0)

\* the documents whose record the bulk job wrote (not the old records)
WrittenDocs == { d \in DOMAIN llm.output : llm.output[d].sections # OldSections }

\* C22: every record the bulk job persists from what section_with_llm
\* returned omits every section whose content is empty: sections
\* {summary: "", skills: ["Python"]} are persisted with skills only.
C22_PersistedOmitsEmpty ==
    \A d \in WrittenDocs :
       LET sections == llm.output[d].sections
       IN  (llm.output[d].complete /\ sections.type = "object") =>
               \A k \in DOMAIN sections.fields : ~EmptyContent(sections.fields[k])

(***************************************************************************)
(* C25: the bulk job resumes                                               *)
(***************************************************************************)
\* the step is an iteration of the bulk job's loop
BatchStep == llm.pc = "batch" /\ Len(llm'.attempted) = Len(llm.attempted) + 1

\* the iteration ended in the except branch: section_with_llm raised, or
\* writing the record did
IterationFailed == llm'.last.out = "raised" \/ ~llm'.last.value.writable

\* no record is rewritten or deleted
RecordsKept ==
    \A d \in DOMAIN llm.output :
       d \in DOMAIN llm'.output /\ llm'.output[d] = llm.output[d]

\* the segmenter is called for documents without record only, and a record
\* is written only for the document of a call that returned
CallsForPendingOnly ==
    /\ BatchStep => llm'.last.doc \notin DOMAIN llm.output
    /\ \A d \in DOMAIN llm'.output \ DOMAIN llm.output :
          /\ BatchStep
          /\ llm'.last.doc = d
          /\ llm'.last.out = "returned"
          /\ llm'.output[d].sections = llm'.last.value

\* a run that starts when every document has a record calls nobody and
\* changes nothing
RerunDoesNothing ==
    (/\ llm.pc = "idle"
     /\ llm'.runs = llm.runs + 1
     /\ \A i \in 1..Len(llm.input) : llm.input[i] \in DOMAIN llm.output) =>
        /\ llm'.pc = "idle"
        /\ llm'.output = llm.output
        /\ llm'.last = llm.last
        /\ llm'.attempted = << >>

\* C25: process_all_txt calls the segmenter only for documents whose stem
\* has no output record yet, never rewrites or deletes an existing output
\* record, writes a record for a pending document only when its
\* segmentation succeeded; running it again when every document has its
\* record makes no collaborator call and changes nothing; and a document
\* that failed stays pending.
C25_IdempotentResumption ==
    [][/\ RecordsKept
       /\ CallsForPendingOnly
       /\ RerunDoesNothing
       /\ (BatchStep /\ IterationFailed) => llm'.last.doc \notin DOMAIN llm'.output]_vars

\* C25 without its last part, and for a document whose segmentation
\* failed: that one stays pending
C25_SegmentationFailureStaysPending ==
    [][/\ RecordsKept
       /\ CallsForPendingOnly
       /\ RerunDoesNothing
       /\ (BatchStep /\ llm'.last.out = "raised") =>
              llm'.last.doc \notin DOMAIN llm'.output]_vars

(***************************************************************************)
(* C26: the calls of one section_with_llm                                  *)
(***************************************************************************)
\* the response parses as JSON (after the fence is taken off)
ParsesAsJson(response) ==
    response.kind = "json" /\ response.fence \in { "none", "bare", "json" }

\* the calls of the last section_with_llm, in order
LastCalls == CallsIn(llm.last.events)

\* the attempts (from 1) whose response parses
Parsing == { a \in 1..SectionRetries : ParsesAsJson(llm.last.responses[a]) }

\* C26: section_with_llm makes at most `retries` (3) collaborator calls,
\* the attempts that only switch the provider or the model included; it
\* returns at the first response that parses as JSON; otherwise it raises
\* the last error, which process_single_resume returns as
\* {"error": "LLM processing failed: <message>"} instead of raising.
C26_BoundedCalls ==
    llm.last.by = "single" =>
        /\ Len(LastCalls) <= SectionRetries
        /\ IF Parsing # {}
           THEN LET first == CHOOSE a \in Parsing : \A b \in Parsing : a <= b
                IN  /\ Len(LastCalls) = first
                    /\ llm.last.out = "returned"
                    /\ llm.single.kind = "ok"
                    /\ llm.single.sections = llm.last.responses[first].value
           ELSE /\ Len(LastCalls) = SectionRetries
                /\ llm.last.out = "raised"
                /\ llm.last.error = LlmAttempt(llm.last.responses[SectionRetries]).msg
                /\ llm.single.kind = "error"
                /\ llm.single.message = FailedPrefix \o llm.last.error

\* C26 witness: from the primary model, two daily-limit errors switch to
\* the 8B model and to Ollama, the third answer is no JSON: three calls on
\* three models, and the error is returned as a result.
C26_Witness ==
    /\ llm.last.by = "single"
    /\ Len(LastCalls) = 3
    /\ LastCalls[1].what = GROQ_PRIMARY
    /\ LastCalls[2].what = GROQ_FALLBACK
    /\ LastCalls[3].what = OLLAMA_MODEL
    /\ llm.last.out = "raised"
    /\ llm.single.kind = "error"
    /\ llm.single.message = FailedPrefix \o DecodeError(0)

(***************************************************************************)
(* C27: a failure does not stop the bulk job                               *)
(***************************************************************************)
\* C27: in a run of the bulk job every pending document is attempted
\* exactly once, in order, whatever happened to the documents before it:
\* inside the loop the documents attempted are the pending ones before the
\* current position, after the loop they are the pending ones.
C27_EveryPendingAttempted ==
    /\ llm.pc = "batch" =>
          /\ llm.i <= Len(llm.pending) + 1
          /\ llm.attempted = SubSeq(llm.pending, 1, llm.i - 1)
    /\ (llm.pc = "idle" /\ llm.runs > 0) => llm.attempted = llm.pending

\* C27 witness: two documents were pending, the segmentation of the first
\* failed after its retries, and the second was attempted and written.
C27_Witness ==
    /\ llm.pc = "idle"
    /\ llm.runs = 1
    /\ llm.pending = <<1, 2>>
    /\ llm.attempted = <<1, 2>>
    /\ 1 \notin DOMAIN llm.output
    /\ 2 \in DOMAIN llm.output
    /\ llm.last.doc = 2
    /\ llm.last.out = "returned"

(***************************************************************************)
(* C28: the provider and the model                                         *)
(***************************************************************************)
\* the chain of fallbacks
NextInChain(model) ==
    CASE model = GROQ_PRIMARY -> GROQ_FALLBACK
      [] model = GROQ_FALLBACK -> OLLAMA_MODEL
      [] OTHER -> "none"

\* the collaborator raised a 429 rate-limit error
RateLimited(response) ==
    response.kind = "error" /\ response.msg \in { DailyLimitError, MinuteLimitError }

\* the step is a call of section_with_llm: an iteration of the bulk job, or
\* process_single_resume on a text that is not blank
SectionStep ==
    \/ BatchStep
    \/ llm'.singles = llm.singles + 1 /\ llm'.single.message # NoTextError

\* the calls of the section_with_llm of this step, in order
StepCalls == CallsIn(llm'.last.events)

\* the model after call a of this step: the model of the next call, or the
\* global model left behind when a is the last call
ModelAfter(a) ==
    IF a < Len(StepCalls) THEN StepCalls[a + 1].what ELSE llm'.global.model

\* section_with_llm starts on the model the globals hold, and after each
\* call the model stays, or moves one step forward along the chain after a
\* rate-limit error
ForwardOnRateLimit ==
    SectionStep =>
        /\ StepCalls[1].what = llm.global.model
        /\ \A a \in 1..Len(StepCalls) :
              \/ ModelAfter(a) = StepCalls[a].what
              \/ /\ ModelAfter(a) = NextInChain(StepCalls[a].what)
                 /\ RateLimited(llm'.last.responses[a])

\* the same, for an error whose message holds the text "429"
ForwardOn429Text ==
    SectionStep =>
        /\ StepCalls[1].what = llm.global.model
        /\ \A a \in 1..Len(StepCalls) :
              \/ ModelAfter(a) = StepCalls[a].what
              \/ /\ ModelAfter(a) = NextInChain(StepCalls[a].what)
                 /\ Contains(LlmAttempt(llm'.last.responses[a]).msg, <<"4","2","9">>)

\* outside section_with_llm the globals stay, except that the start of
\* process_all_txt sets the primary again
PersistsUntilReset ==
    ~SectionStep =>
        IF llm'.runs = llm.runs + 1
        THEN llm'.global = Global("groq", GROQ_PRIMARY)
        ELSE llm'.global = llm.global

C28_ForwardOnlyOn429Text ==
    /\ [](llm.global \in Globals)
    /\ [][ForwardOn429Text /\ PersistsUntilReset]_vars

\* the case: the 8B model answered something that is no JSON, the decode
\* error names position 429, and the next call went to Ollama
C28_SwitchOnDecodeError ==
    \E a \in 1..(Len(LastCalls) - 1) :
       /\ LastCalls[a].what = GROQ_FALLBACK
       /\ LastCalls[a + 1].what = OLLAMA_MODEL
       /\ llm.last.responses[a].kind = "malformed"
====
